---- MODULE Spec2Model ----
(***************************************************************************)
(* The refresh/cache engine of netatmo-exporter: the legacy collectors     *)
(* (NetatmoCollector, HomeCoachCollector), the unified collector           *)
(* (UnifiedCollectorV2) and the token-based HomeCoachCollector, as a       *)
(* state machine of concurrent scrapes (Collect calls) and background      *)
(* refresh goroutines.                                                     *)
(*                                                                         *)
(* Time is in whole seconds.  A time.Time is a number, the zero time.Time  *)
(* is 0 and the clock never reads 0.  A nil pointer is the empty tuple and *)
(* a pointer to v is <<v>>.  A nil error is the string "nil".              *)
(***************************************************************************)
EXTENDS Integers, Sequences, FiniteSets, Bags, TLC

\* ---------------------------------------------------------------- bounds
MaxClock == 2
MaxTasks == 2
MaxScrapes == 2
MaxParams == 2

\* ------------------------------------------------------- configuration
RefreshInterval == 1
StaleThreshold == 1

Collectors == {"netatmo", "homecoach", "unified", "token"}
Caches == {"netatmo", "homecoach", "v2weather", "v2homecoach"}

ZeroTime == 0
maxDuration == 1000000
Nil == <<>>
NoErr == "nil"
Errors == {"timeout"}

\* time.Time.IsZero
IsZero(t) == t = ZeroTime

\* time.Time.Sub: the difference, saturated when one side is the zero time
\* (year 1), which is further from any clock reading than a Duration holds.
Sub(t, u) ==
    IF u = ZeroTime /\ t # ZeroTime THEN maxDuration
    ELSE IF t = ZeroTime /\ u # ZeroTime THEN 0 - maxDuration
    ELSE t - u

convertTime(t) == IF IsZero(t) THEN 0 ELSE t

\* prometheus.NewConstMetric + ch <- m : one observation
sendMetric(desc, value, labelValues) ==
    <<[desc |-> desc, value |-> value, labels |-> labelValues]>>

\* sendMetric guarded by a nil check of the pointer p
sendIfPresent(desc, p, labelValues) ==
    IF p = Nil THEN <<>> ELSE sendMetric(desc, p[1], labelValues)

\* ------------------------------------------------------- upstream data
\* netatmo.DashboardData with every field a pointer
NoDashboard ==
    [LastMeasure |-> Nil, Temperature |-> Nil, Humidity |-> Nil, CO2 |-> Nil,
     Noise |-> Nil, Pressure |-> Nil, WindStrength |-> Nil, WindAngle |-> Nil,
     Rain |-> Nil]

\* netatmo.Device
Device(id, moduleName, stationName, homeName, dashboard, battery, wifi, rf, linked) ==
    [ID |-> id, ModuleName |-> moduleName, StationName |-> stationName,
     HomeName |-> homeName, DashboardData |-> dashboard,
     BatteryPercent |-> battery, WifiStatus |-> wifi, RFStatus |-> rf,
     LinkedModules |-> linked]

\* A pointer to cached data: nil, or the devices of a response.
NoData == [isNil |-> TRUE, devices |-> <<>>]
Data(devs) == [isNil |-> FALSE, devices |-> devs]

\* Responses client.Read can give.  Station st1 with an outdoor module that has
\* no name (m1), and a module that never measured (m2); then a later reading.
WeatherPayloadA ==
    <<Device("st1", "Indoor", "Station", "Home",
        [NoDashboard EXCEPT !.LastMeasure = <<1>>, !.Temperature = <<21>>,
                            !.Humidity = <<40>>, !.CO2 = <<500>>, !.Rain = <<0>>],
        Nil, <<60>>, Nil,
        <<Device("m1", "", "", "",
            [NoDashboard EXCEPT !.LastMeasure = <<0>>, !.Temperature = <<5>>],
            <<80>>, Nil, <<70>>, <<>>),
          Device("m2", "Rain", "", "",
            NoDashboard, <<50>>, Nil, <<90>>, <<>>)>>)>>

WeatherPayloadB ==
    <<Device("st1", "Indoor", "Station", "Home",
        [NoDashboard EXCEPT !.LastMeasure = <<2>>, !.Temperature = <<22>>,
                            !.Noise = <<35>>],
        Nil, <<61>>, Nil, <<>>)>>

WeatherPayloads == {WeatherPayloadA, WeatherPayloadB}

\* The body of a gethomecoachsdata response as sent: a JSON object, a key that
\* upstream did not send is not in the DOMAIN.  The second body comes from a
\* device that was given no name; the first from a device that upstream lists
\* under the ID and the station name of the weather station.
HomecoachJSONA ==
    <<[_id |-> "st1", station_name |-> "Station", wifi_status |-> 55,
       dashboard_data |-> [time_utc |-> 0, Temperature |-> 20, CO2 |-> 600]]>>

HomecoachJSONB ==
    <<[_id |-> "hc1",
       dashboard_data |-> [time_utc |-> 2, Temperature |-> 19, CO2 |-> 450,
                           Humidity |-> 45, Noise |-> 30, Pressure |-> 1013,
                           health_idx |-> 1]]>>

HomecoachBodies == {HomecoachJSONA, HomecoachJSONB}

\* encoding/json into a non-pointer field: the value sent, or the zero value
jsonField(obj, key, zero) == IF key \in DOMAIN obj THEN obj[key] ELSE zero

\* json.NewDecoder(resp.Body).Decode(&result) into HomeCoachResponse
DecodeDevice(j) ==
    LET dd == jsonField(j, "dashboard_data", <<>>) IN
    [ID |-> jsonField(j, "_id", ""),
     StationName |-> jsonField(j, "station_name", ""),
     WifiStatus |-> jsonField(j, "wifi_status", 0),
     DashboardData |->
        [TimeUTC |-> jsonField(dd, "time_utc", 0),
         Temperature |-> jsonField(dd, "Temperature", 0),
         CO2 |-> jsonField(dd, "CO2", 0),
         Humidity |-> jsonField(dd, "Humidity", 0),
         Noise |-> jsonField(dd, "Noise", 0),
         Pressure |-> jsonField(dd, "Pressure", 0),
         HealthIndex |-> jsonField(dd, "health_idx", 0)]]

HomeCoachResponse(body) == [i \in 1..Len(body) |-> DecodeDevice(body[i])]

\* What a read function can return: (data, nil) or (nil, err).
ReadResult(data, err) == [data |-> data, err |-> err]

WeatherReadResults ==
    {ReadResult(Data(p), NoErr) : p \in WeatherPayloads}
        \cup {ReadResult(NoData, e) : e \in Errors}

\* FetchHomeCoachData
FetchHomeCoachData ==
    {ReadResult(Data(HomeCoachResponse(b)), NoErr) : b \in HomecoachBodies}
        \cup {ReadResult(NoData, e) : e \in Errors}

ReadFunction(cache) ==
    IF cache \in {"netatmo", "v2weather"} THEN WeatherReadResults
    ELSE FetchHomeCoachData

\* The concatenation of the sequences of a sequence.
RECURSIVE Flatten(_)
Flatten(ss) == IF ss = <<>> THEN <<>> ELSE Head(ss) \o Flatten(Tail(ss))

\* A range loop that sends: f(s[1]) \o ... \o f(s[Len(s)]).
ForEach(s, f(_)) == Flatten([i \in 1..Len(s) |-> f(s[i])])

\* ------------------------------------------------ projection (pure part)
prefix == "netatmo_"
sensorPrefix == prefix \o "sensor_"

\* Variant of collectWeatherDeviceV2 that drops a measurement whose age has
\* reached the stale threshold.
collectWeatherDeviceV2_StaleAtThreshold(device, stationName, homeName, now) ==
    LET moduleName == IF device.ModuleName = "" THEN "id-" \o device.ID
                      ELSE device.ModuleName
        data == device.DashboardData
        labels == <<"weather", device.ID, homeName, moduleName, stationName>>
    IN  IF data.LastMeasure = Nil THEN <<>>
        ELSE IF now - data.LastMeasure[1] >= StaleThreshold THEN <<>>
        ELSE sendMetric(sensorPrefix \o "updated", data.LastMeasure[1], labels)
          \o sendIfPresent(sensorPrefix \o "temperature_celsius", data.Temperature, labels)
          \o sendIfPresent(sensorPrefix \o "humidity_percent", data.Humidity, labels)
          \o sendIfPresent(sensorPrefix \o "co2_ppm", data.CO2, labels)
          \o sendIfPresent(sensorPrefix \o "noise_db", data.Noise, labels)
          \o sendIfPresent(sensorPrefix \o "pressure_mb", data.Pressure, labels)
          \o sendIfPresent(sensorPrefix \o "wind_strength_kph", data.WindStrength, labels)
          \o sendIfPresent(sensorPrefix \o "wind_direction_degrees", data.WindAngle, labels)
          \o sendIfPresent(sensorPrefix \o "rain_amount_mm", data.Rain, labels)
          \o sendIfPresent(sensorPrefix \o "battery_percent", device.BatteryPercent, labels)
          \o sendIfPresent(sensorPrefix \o "wifi_signal_strength", device.WifiStatus, labels)
          \o sendIfPresent(sensorPrefix \o "rf_signal_strength", device.RFStatus, labels)

\* UnifiedCollectorV2.collectWeatherDeviceV2, with now the reading of c.clock()
collectWeatherDeviceV2(device, stationName, homeName, now) ==
    LET moduleName == IF device.ModuleName = "" THEN "id-" \o device.ID
                      ELSE device.ModuleName
        data == device.DashboardData
        labels == <<"weather", device.ID, homeName, moduleName, stationName>>
    IN  IF data.LastMeasure = Nil THEN <<>>
        ELSE IF now - data.LastMeasure[1] > StaleThreshold THEN <<>>
        ELSE sendMetric(sensorPrefix \o "updated", data.LastMeasure[1], labels)
          \o sendIfPresent(sensorPrefix \o "temperature_celsius", data.Temperature, labels)
          \o sendIfPresent(sensorPrefix \o "humidity_percent", data.Humidity, labels)
          \o sendIfPresent(sensorPrefix \o "co2_ppm", data.CO2, labels)
          \o sendIfPresent(sensorPrefix \o "noise_db", data.Noise, labels)
          \o sendIfPresent(sensorPrefix \o "pressure_mb", data.Pressure, labels)
          \o sendIfPresent(sensorPrefix \o "wind_strength_kph", data.WindStrength, labels)
          \o sendIfPresent(sensorPrefix \o "wind_direction_degrees", data.WindAngle, labels)
          \o sendIfPresent(sensorPrefix \o "rain_amount_mm", data.Rain, labels)
          \o sendIfPresent(sensorPrefix \o "battery_percent", device.BatteryPercent, labels)
          \o sendIfPresent(sensorPrefix \o "wifi_signal_strength", device.WifiStatus, labels)
          \o sendIfPresent(sensorPrefix \o "rf_signal_strength", device.RFStatus, labels)

\* Variant of collectWeatherV2 that collects the station once more for each of
\* its modules.
collectWeatherV2_RepeatsStation(cached, now) ==
    IF cached.isNil THEN <<>>
    ELSE LET perDevice(dev) ==
                LET perModule(module) ==
                        collectWeatherDeviceV2(dev, dev.StationName, dev.HomeName, now)
                IN  collectWeatherDeviceV2(dev, dev.StationName, dev.HomeName, now)
                        \o ForEach(dev.LinkedModules, perModule)
         IN  ForEach(cached.devices, perDevice)

\* UnifiedCollectorV2.collectWeatherV2, the part under the read lock
collectWeatherV2(cached, now) ==
    IF cached.isNil THEN <<>>
    ELSE LET perDevice(dev) ==
                LET perModule(module) ==
                        collectWeatherDeviceV2(module, dev.StationName, dev.HomeName, now)
                IN  collectWeatherDeviceV2(dev, dev.StationName, dev.HomeName, now)
                        \o ForEach(dev.LinkedModules, perModule)
         IN  ForEach(cached.devices, perDevice)

\* UnifiedCollectorV2.collectHomecoachV2, the part under the read lock
collectHomecoachV2(cached, now) ==
    IF cached.isNil THEN <<>>
    ELSE LET perDevice(device) ==
                LET labels == <<"homecoach", device.ID, "", "", device.StationName>>
                    dd == device.DashboardData
                IN  sendMetric(sensorPrefix \o "updated", dd.TimeUTC, labels)
                 \o sendMetric(sensorPrefix \o "temperature_celsius", dd.Temperature, labels)
                 \o sendMetric(sensorPrefix \o "humidity_percent", dd.Humidity, labels)
                 \o sendMetric(sensorPrefix \o "co2_ppm", dd.CO2, labels)
                 \o sendMetric(sensorPrefix \o "noise_db", dd.Noise, labels)
                 \o sendMetric(sensorPrefix \o "pressure_mb", dd.Pressure, labels)
                 \o sendMetric(sensorPrefix \o "health_index", dd.HealthIndex, labels)
                 \o sendMetric(sensorPrefix \o "wifi_signal_strength", device.WifiStatus, labels)
         IN  ForEach(cached.devices, perDevice)

\* Variant of upValue that forgets the last refresh error.
upValue_IgnoresError(last, err) == IF IsZero(last) THEN 0 ELSE 1

\* The up value of every collector: 0 when lastRefresh.IsZero() or the last
\* refresh error is not nil, else 1.
upValue(last, err) == IF IsZero(last) \/ err # NoErr THEN 0 ELSE 1

\* UnifiedCollectorV2.collectWeatherMetaV2 / collectHomecoachMetaV2: the five
\* meta metrics of a source; infix is "" for weather and "homecoach_".
collectMetaV2(infix, last, err, duration) ==
       sendMetric(prefix \o infix \o "up", upValue(last, err), <<>>)
    \o sendMetric(prefix \o infix \o "refresh_interval_seconds", RefreshInterval, <<>>)
    \o sendMetric(prefix \o infix \o "last_refresh_time", convertTime(last), <<>>)
    \o sendMetric(prefix \o infix \o "last_refresh_duration_seconds", duration, <<>>)
    \o sendMetric(prefix \o infix \o "cache_updated_time", convertTime(last), <<>>)

\* NetatmoCollector.collectData
collectData(device, stationName, homeName, now) ==
    LET moduleName == IF device.ModuleName = "" THEN "id-" \o device.ID
                      ELSE device.ModuleName
        data == device.DashboardData
        labels == <<moduleName, stationName, homeName>>
    IN  IF data.LastMeasure = Nil THEN <<>>
        ELSE IF now - data.LastMeasure[1] > StaleThreshold THEN <<>>
        ELSE sendMetric(sensorPrefix \o "updated", data.LastMeasure[1], labels)
          \o sendIfPresent(sensorPrefix \o "temperature_celsius", data.Temperature, labels)
          \o sendIfPresent(sensorPrefix \o "humidity_percent", data.Humidity, labels)
          \o sendIfPresent(sensorPrefix \o "co2_ppm", data.CO2, labels)
          \o sendIfPresent(sensorPrefix \o "noise_db", data.Noise, labels)
          \o sendIfPresent(sensorPrefix \o "pressure_mb", data.Pressure, labels)
          \o sendIfPresent(sensorPrefix \o "wind_strength_kph", data.WindStrength, labels)
          \o sendIfPresent(sensorPrefix \o "wind_direction_degrees", data.WindAngle, labels)
          \o sendIfPresent(sensorPrefix \o "rain_amount_mm", data.Rain, labels)
          \o sendIfPresent(sensorPrefix \o "battery_percent", device.BatteryPercent, labels)
          \o sendIfPresent(sensorPrefix \o "wifi_signal_strength", device.WifiStatus, labels)
          \o sendIfPresent(sensorPrefix \o "rf_signal_strength", device.RFStatus, labels)

\* NetatmoCollector.Collect, the part under the read lock
NetatmoCollector_CollectCached(timestamp, cached, now) ==
    sendMetric(prefix \o "cache_updated_time", convertTime(timestamp), <<>>)
    \o (IF cached.isNil THEN <<>>
        ELSE LET perDevice(dev) ==
                    LET perModule(module) ==
                            collectData(module, dev.StationName, dev.HomeName, now)
                    IN  collectData(dev, dev.StationName, dev.HomeName, now)
                            \o ForEach(dev.LinkedModules, perModule)
             IN  ForEach(cached.devices, perDevice))

\* Variant of NetatmoCollector_CollectStatus that reports up only once a
\* refresh was tried.
NetatmoCollector_CollectStatus_UpAfterRefresh(last, err, duration) ==
       (IF IsZero(last) THEN <<>>
        ELSE sendMetric(prefix \o "up", upValue(last, err), <<>>))
    \o sendMetric(prefix \o "refresh_interval_seconds", RefreshInterval, <<>>)
    \o sendMetric(prefix \o "last_refresh_time", convertTime(last), <<>>)
    \o sendMetric(prefix \o "last_refresh_duration_seconds", duration, <<>>)

\* NetatmoCollector.Collect, the four status metrics sent before the lock
NetatmoCollector_CollectStatus(last, err, duration) ==
       sendMetric(prefix \o "up", upValue(last, err), <<>>)
    \o sendMetric(prefix \o "refresh_interval_seconds", RefreshInterval, <<>>)
    \o sendMetric(prefix \o "last_refresh_time", convertTime(last), <<>>)
    \o sendMetric(prefix \o "last_refresh_duration_seconds", duration, <<>>)

\* HomeCoachCollector.Collect, the four status metrics sent before the lock
HomeCoachCollector_CollectStatus(last, err, duration) ==
       sendMetric(prefix \o "homecoach_up", upValue(last, err), <<>>)
    \o sendMetric(prefix \o "homecoach_refresh_interval_seconds", RefreshInterval, <<>>)
    \o sendMetric(prefix \o "homecoach_last_refresh_time", convertTime(last), <<>>)
    \o sendMetric(prefix \o "homecoach_last_refresh_duration_seconds", duration, <<>>)

\* HomeCoachCollector.Collect, the part under the read lock
HomeCoachCollector_CollectCached(timestamp, cached, now) ==
    sendMetric(prefix \o "homecoach_cache_updated_time", convertTime(timestamp), <<>>)
    \o (IF cached.isNil THEN <<>>
        ELSE LET perDevice(device) ==
                    LET labels == <<device.ID, device.StationName>>
                        dd == device.DashboardData
                    IN  sendMetric(prefix \o "homecoach_temperature", dd.Temperature, labels)
                     \o sendMetric(prefix \o "homecoach_humidity", dd.Humidity, labels)
                     \o sendMetric(prefix \o "homecoach_co2", dd.CO2, labels)
                     \o sendMetric(prefix \o "homecoach_noise", dd.Noise, labels)
                     \o sendMetric(prefix \o "homecoach_pressure", dd.Pressure, labels)
                     \o sendMetric(prefix \o "homecoach_health_index", dd.HealthIndex, labels)
                     \o sendMetric(prefix \o "homecoach_wifi_signal_strength", device.WifiStatus, labels)
             IN  ForEach(cached.devices, perDevice))

\* ----------------------------------------------------------------- state
VARIABLES
    cfg,                  \* which collector is scraped, and the enable flags
    clock,                \* what c.clock() returns
    lastRefresh,          \* per cache: lastRefresh / weatherLastRefresh / ...
    lastRefreshError,     \* per cache
    lastRefreshDuration,  \* per cache
    cacheTimestamp,       \* per cache (the legacy collectors only)
    cachedData,           \* per cache
    cacheLock,            \* per cache: TRUE while the sync.RWMutex is write-locked
    tasks,                \* the bag of running refresh goroutines
    scrapes,              \* the bag of Collect calls in progress
    sent,                 \* what the step just taken sent on the metrics channel
    lastTrigger,          \* per cache: the now of the refresh started last (history)
    lastFailed,           \* per cache: the greatest now of a refresh that failed (history)
    web,                  \* the request a web handler served last and its response
    client,               \* the API client: the token installed, the process state
    tokenFile             \* the token file: not configured, absent or present

vars == <<cfg, clock, lastRefresh, lastRefreshError, lastRefreshDuration,
          cacheTimestamp, cachedData, cacheLock, tasks, scrapes, sent, lastTrigger,
          lastFailed, web, client, tokenFile>>

cacheVars == <<lastRefresh, lastRefreshError, lastRefreshDuration,
               cacheTimestamp, cachedData>>

\* One request served by a web handler: the handler, the request method, the
\* upstream functions it called (in order), and the response written: the
\* status code (NoResponse when the handler panicked and nothing was written)
\* and the body.
NoResponse == 0
Exchange(handler, method, calls, status, body) ==
    [handler |-> handler, method |-> method, calls |-> calls,
     status |-> status, body |-> body]
NoExchange == Exchange("none", "", <<>>, NoResponse, "")

\* netatmo.Client and the process around it: the token installed by
\* InitWithToken (Nil: not authenticated); whether main is starting, serves
\* requests ("running") or has exited ("fatal"); what loadToken returned at
\* startup and the time.Now() of the startup.
Client(token, state, restored, startedAt) ==
    [token |-> token, state |-> state, restored |-> restored, startedAt |-> startedAt]
NoClient == Client(Nil, "starting", [token |-> Nil, err |-> "none"], ZeroTime)

\* cfg.TokenFile and the file it names: "" (no token file configured), or a
\* path at which there is no file, or a file.
NoTokenFile == "unset"
TokenFiles == {NoTokenFile, "absent", "present"}

\* The deployments explored: one collector under scrape; the unified collector
\* with a disabled source.
Configs ==
    {[collector |-> k, enableWeather |-> TRUE, enableHomecoach |-> TRUE] :
        k \in {"netatmo", "homecoach", "token"}}
    \cup {[collector |-> "unified", enableWeather |-> w, enableHomecoach |-> h] :
        w \in BOOLEAN, h \in {FALSE}}
    \cup {[collector |-> "unified", enableWeather |-> FALSE, enableHomecoach |-> TRUE]}

\* main: with the weather source disabled, the process registers the legacy
\* HomeCoachCollector (registryV1) and the unified collector (registryV2), each
\* constructed on its own from the same reader function.
ConfigMain == [collector |-> "main", enableWeather |-> FALSE, enableHomecoach |-> TRUE]

\* The collector k is registered in the running process.
Registered(k) ==
    \/ cfg.collector = k
    \/ cfg.collector = "main" /\ k \in {"homecoach", "unified"}

\* A refresh goroutine: its position, its cache, its argument now, its local
\* start and what the reader returned to it.
Task(pc, c, now, start, r) ==
    [pc |-> pc, cache |-> c, now |-> now, start |-> start, data |-> r.data, err |-> r.err]

NoResult == [data |-> NoData, err |-> NoErr]

\* A Collect call: its position and its local now.
Scrape(pc, now) == [pc |-> pc, now |-> now]

\* What a step sent: the cache it read (or "none"; for the token-based
\* collector's early return, what tokenFunc returned), the part of Collect
\* that sent ("meta", "data" or "token") and the metrics, in order.
Sent(c, part, metrics) == [cache |-> c, part |-> part, metrics |-> metrics]
NoSend == Sent("none", "none", <<>>)

Running(bag) == BagToSet(bag)
Add(bag, x) == bag (+) SetToBag({x})
Remove(bag, x) == bag (-) SetToBag({x})
Replace(bag, x, y) == Add(Remove(bag, x), y)

\* New / NewHomeCoachCollector / UnifiedCollector: every state field zero
InitCollectors ==
    /\ clock = 1
    /\ lastRefresh = [c \in Caches |-> ZeroTime]
    /\ lastRefreshError = [c \in Caches |-> NoErr]
    /\ lastRefreshDuration = [c \in Caches |-> 0]
    /\ cacheTimestamp = [c \in Caches |-> ZeroTime]
    /\ cachedData = [c \in Caches |-> NoData]
    /\ cacheLock = [c \in Caches |-> FALSE]
    /\ tasks = EmptyBag
    /\ scrapes = EmptyBag
    /\ sent = NoSend
    /\ lastTrigger = [c \in Caches |-> ZeroTime]
    /\ lastFailed = [c \in Caches |-> ZeroTime]
    /\ web = NoExchange
    /\ client = NoClient

\* The collectors of a process that has no token file configured.
InitState ==
    /\ InitCollectors
    /\ tokenFile = NoTokenFile

Init ==
    /\ cfg \in Configs
    /\ InitState

\* ------------------------------------------------------------ primitives
\* The clock moves on.
Tick ==
    /\ clock < MaxClock
    /\ clock' = clock + 1
    /\ sent' = NoSend
    /\ UNCHANGED <<cfg, tokenFile, web, client, cacheVars, cacheLock, tasks, scrapes, lastTrigger, lastFailed>>

\* sync.RWMutex.  A read section (RLock ... RUnlock) is one step, taken while no
\* goroutine holds the write lock; a write section is entered in one step and
\* left in a later one.
\* Variant of CanRLock with one lock for all sources.
CanRLock_Global(c) == \A d \in Caches : ~cacheLock[d]

CanRLock(c) == ~cacheLock[c]
CanLock(c) == ~cacheLock[c]
Lock(c) == [cacheLock EXCEPT ![c] = TRUE]
Unlock(c) == [cacheLock EXCEPT ![c] = FALSE]

\* Variant of RefreshDue in which a full interval is not yet enough.
RefreshDue_Strict(c, now) == Sub(now, lastRefresh[c]) > RefreshInterval

\* History: the refresh triggered at t.now has recorded a failure.  No history
\* is kept in the runs of the unified collector with both sources enabled.
RecordFailure(t) ==
    IF cfg.collector = "unified" /\ cfg.enableWeather /\ cfg.enableHomecoach
    THEN lastFailed
    ELSE [lastFailed EXCEPT ![t.cache] = IF t.now > @ THEN t.now ELSE @]

\* if now.Sub(lastRefresh) >= refreshInterval
RefreshDue(c, now) == Sub(now, lastRefresh[c]) >= RefreshInterval

\* ------------------------------------------------- UnifiedCollectorV2
\* go c.refreshWeather(now) / go c.refreshHomecoach(now), up to the call of the
\* reader: start := c.clock()
Unified_Go(c, now) ==
    /\ BagCardinality(tasks) < MaxTasks
    /\ tasks' = Add(tasks, Task("reading", c, now, clock, NoResult))
    /\ lastTrigger' = [lastTrigger EXCEPT ![c] = now]
    /\ UNCHANGED lastFailed

\* Variant of Unified_Collect that does not look at enableWeather.
Unified_Collect_IgnoresFlag ==
    /\ Registered("unified")
    /\ BagCardinality(scrapes) < MaxScrapes
    /\ IF RefreshDue("v2weather", clock)
       THEN Unified_Go("v2weather", clock)
       ELSE UNCHANGED <<tasks, lastTrigger, lastFailed>>
    /\ scrapes' = Add(scrapes, Scrape("weatherMeta", clock))
    /\ sent' = NoSend
    /\ UNCHANGED <<cfg, tokenFile, web, client, clock, cacheVars, cacheLock>>

\* Collect: now := c.clock(); if c.enableWeather { if due { go refreshWeather } }
Unified_Collect ==
    /\ Registered("unified")
    /\ BagCardinality(scrapes) < MaxScrapes
    /\ IF cfg.enableWeather
       THEN /\ IF RefreshDue("v2weather", clock)
               THEN Unified_Go("v2weather", clock)
               ELSE UNCHANGED <<tasks, lastTrigger, lastFailed>>
            /\ scrapes' = Add(scrapes, Scrape("weatherMeta", clock))
       ELSE /\ scrapes' = Add(scrapes, Scrape("homecoach", clock))
            /\ UNCHANGED <<tasks, lastTrigger, lastFailed>>
    /\ sent' = NoSend
    /\ UNCHANGED <<cfg, tokenFile, web, client, clock, cacheVars, cacheLock>>

\* collectWeatherMetaV2: RLock, the five meta metrics, RUnlock
Unified_collectWeatherMetaV2(s) ==
    /\ s.pc = "weatherMeta"
    /\ CanRLock("v2weather")
    /\ sent' = Sent("v2weather", "meta",
                    collectMetaV2("", lastRefresh["v2weather"],
                                  lastRefreshError["v2weather"],
                                  lastRefreshDuration["v2weather"]))
    /\ scrapes' = Replace(scrapes, s, Scrape("weatherData", s.now))
    /\ UNCHANGED <<cfg, tokenFile, web, client, clock, cacheVars, cacheLock, tasks, lastTrigger, lastFailed>>

\* Variant of Unified_collectWeatherV2 that empties the snapshot it has sent.
Unified_collectWeatherV2_Consumes(s) ==
    /\ s.pc = "weatherData"
    /\ CanRLock("v2weather")
    /\ sent' = Sent("v2weather", "data", collectWeatherV2(cachedData["v2weather"], clock))
    /\ scrapes' = Replace(scrapes, s, Scrape("homecoach", s.now))
    /\ cachedData' = [cachedData EXCEPT !["v2weather"] = NoData]
    /\ UNCHANGED <<cfg, tokenFile, web, client, clock, lastRefresh, lastRefreshError, lastRefreshDuration,
                   cacheTimestamp, cacheLock, tasks, lastTrigger, lastFailed>>

\* collectWeatherV2: RLock, the devices' metrics, RUnlock
Unified_collectWeatherV2(s) ==
    /\ s.pc = "weatherData"
    /\ CanRLock("v2weather")
    /\ sent' = Sent("v2weather", "data", collectWeatherV2(cachedData["v2weather"], clock))
    /\ scrapes' = Replace(scrapes, s, Scrape("homecoach", s.now))
    /\ UNCHANGED <<cfg, tokenFile, web, client, clock, cacheVars, cacheLock, tasks, lastTrigger, lastFailed>>

\* Collect: if c.enableHomecoach { if due { go refreshHomecoach } }, or return
Unified_CheckHomecoach(s) ==
    /\ s.pc = "homecoach"
    /\ IF cfg.enableHomecoach
       THEN /\ IF RefreshDue("v2homecoach", s.now)
               THEN Unified_Go("v2homecoach", s.now)
               ELSE UNCHANGED <<tasks, lastTrigger, lastFailed>>
            /\ scrapes' = Replace(scrapes, s, Scrape("homecoachMeta", ZeroTime))
       ELSE /\ scrapes' = Remove(scrapes, s)
            /\ UNCHANGED <<tasks, lastTrigger, lastFailed>>
    /\ sent' = NoSend
    /\ UNCHANGED <<cfg, tokenFile, web, client, clock, cacheVars, cacheLock>>

\* Variant of Unified_collectHomecoachMetaV2 that reports the weather fields.
Unified_collectHomecoachMetaV2_WeatherFields(s) ==
    /\ s.pc = "homecoachMeta"
    /\ CanRLock("v2homecoach")
    /\ sent' = Sent("v2homecoach", "meta",
                    collectMetaV2("homecoach_", lastRefresh["v2weather"],
                                  lastRefreshError["v2weather"],
                                  lastRefreshDuration["v2weather"]))
    /\ scrapes' = Replace(scrapes, s, Scrape("homecoachData", s.now))
    /\ UNCHANGED <<cfg, tokenFile, web, client, clock, cacheVars, cacheLock, tasks, lastTrigger, lastFailed>>

\* collectHomecoachMetaV2: RLock, the five meta metrics, RUnlock
Unified_collectHomecoachMetaV2(s) ==
    /\ s.pc = "homecoachMeta"
    /\ CanRLock("v2homecoach")
    /\ sent' = Sent("v2homecoach", "meta",
                    collectMetaV2("homecoach_", lastRefresh["v2homecoach"],
                                  lastRefreshError["v2homecoach"],
                                  lastRefreshDuration["v2homecoach"]))
    /\ scrapes' = Replace(scrapes, s, Scrape("homecoachData", s.now))
    /\ UNCHANGED <<cfg, tokenFile, web, client, clock, cacheVars, cacheLock, tasks, lastTrigger, lastFailed>>

\* collectHomecoachV2: RLock, the devices' metrics, RUnlock; Collect returns
Unified_collectHomecoachV2(s) ==
    /\ s.pc = "homecoachData"
    /\ CanRLock("v2homecoach")
    /\ sent' = Sent("v2homecoach", "data",
                    collectHomecoachV2(cachedData["v2homecoach"], clock))
    /\ scrapes' = Remove(scrapes, s)
    /\ UNCHANGED <<cfg, tokenFile, web, client, clock, cacheVars, cacheLock, tasks, lastTrigger, lastFailed>>

IsV2(c) == c \in {"v2weather", "v2homecoach"}

\* data, err := c.weatherReader() / c.homecoachReader() returns
Unified_refresh_Read(t) ==
    /\ t.pc = "reading"
    /\ IsV2(t.cache)
    /\ \E r \in ReadFunction(t.cache) :
          tasks' = Replace(tasks, t, Task("lock", t.cache, t.now, t.start, r))
    /\ sent' = NoSend
    /\ UNCHANGED <<cfg, tokenFile, web, client, clock, cacheVars, cacheLock, scrapes, lastTrigger, lastFailed>>

\* c.weatherLock.Lock() / c.homecoachLock.Lock() before the commit
Unified_refresh_Lock(t) ==
    /\ t.pc = "lock"
    /\ IsV2(t.cache)
    /\ CanLock(t.cache)
    /\ cacheLock' = Lock(t.cache)
    /\ tasks' = Replace(tasks, t, [t EXCEPT !.pc = "commit"])
    /\ sent' = NoSend
    /\ UNCHANGED <<cfg, tokenFile, web, client, clock, cacheVars, scrapes, lastTrigger, lastFailed>>

\* Variant of Unified_refresh_Commit that stores data before it looks at err.
Unified_refresh_Commit_StoresAlways(t) ==
    /\ t.pc = "commit"
    /\ IsV2(t.cache)
    /\ lastRefresh' = [lastRefresh EXCEPT ![t.cache] = t.now]
    /\ lastRefreshError' = [lastRefreshError EXCEPT ![t.cache] = t.err]
    /\ cachedData' = [cachedData EXCEPT ![t.cache] = t.data]
    /\ cacheLock' = Unlock(t.cache)
    /\ tasks' = Replace(tasks, t, Task("deferLock", t.cache, ZeroTime, t.start, NoResult))
    /\ sent' = NoSend
    /\ UNCHANGED <<cfg, tokenFile, web, client, clock, lastRefreshDuration, cacheTimestamp, scrapes, lastTrigger>>
    /\ lastFailed' = IF t.err # NoErr THEN RecordFailure(t) ELSE lastFailed

\* Variant of Unified_refresh_Commit that returns on an error without Unlock.
Unified_refresh_Commit_KeepsLockOnError(t) ==
    /\ t.pc = "commit"
    /\ IsV2(t.cache)
    /\ lastRefresh' = [lastRefresh EXCEPT ![t.cache] = t.now]
    /\ lastRefreshError' = [lastRefreshError EXCEPT ![t.cache] = t.err]
    /\ cachedData' = IF t.err # NoErr THEN cachedData
                     ELSE [cachedData EXCEPT ![t.cache] = t.data]
    /\ cacheLock' = IF t.err # NoErr THEN cacheLock ELSE Unlock(t.cache)
    /\ tasks' = Replace(tasks, t, Task("deferLock", t.cache, ZeroTime, t.start, NoResult))
    /\ sent' = NoSend
    /\ UNCHANGED <<cfg, tokenFile, web, client, clock, lastRefreshDuration, cacheTimestamp, scrapes, lastTrigger>>
    /\ lastFailed' = IF t.err # NoErr THEN RecordFailure(t) ELSE lastFailed

\* lastRefresh = now; lastRefreshError = err; on success cachedData = data; Unlock
Unified_refresh_Commit(t) ==
    /\ t.pc = "commit"
    /\ IsV2(t.cache)
    /\ lastRefresh' = [lastRefresh EXCEPT ![t.cache] = t.now]
    /\ lastRefreshError' = [lastRefreshError EXCEPT ![t.cache] = t.err]
    /\ cachedData' = IF t.err # NoErr THEN cachedData
                     ELSE [cachedData EXCEPT ![t.cache] = t.data]
    /\ cacheLock' = Unlock(t.cache)
    /\ tasks' = Replace(tasks, t, Task("deferLock", t.cache, ZeroTime, t.start, NoResult))
    /\ sent' = NoSend
    /\ UNCHANGED <<cfg, tokenFile, web, client, clock, lastRefreshDuration, cacheTimestamp, scrapes, lastTrigger>>
    /\ lastFailed' = IF t.err # NoErr THEN RecordFailure(t) ELSE lastFailed

\* the deferred function: Lock()
Unified_refresh_DeferLock(t) ==
    /\ t.pc = "deferLock"
    /\ IsV2(t.cache)
    /\ CanLock(t.cache)
    /\ cacheLock' = Lock(t.cache)
    /\ tasks' = Replace(tasks, t, [t EXCEPT !.pc = "defer"])
    /\ sent' = NoSend
    /\ UNCHANGED <<cfg, tokenFile, web, client, clock, cacheVars, scrapes, lastTrigger, lastFailed>>

\* the deferred function: lastRefreshDuration = c.clock().Sub(start); Unlock()
Unified_refresh_Defer(t) ==
    /\ t.pc = "defer"
    /\ IsV2(t.cache)
    /\ lastRefreshDuration' = [lastRefreshDuration EXCEPT ![t.cache] = clock - t.start]
    /\ cacheLock' = Unlock(t.cache)
    /\ tasks' = Remove(tasks, t)
    /\ sent' = NoSend
    /\ UNCHANGED <<cfg, tokenFile, web, client, clock, lastRefresh, lastRefreshError, cacheTimestamp,
                   cachedData, scrapes, lastTrigger, lastFailed>>

UnifiedNext ==
    \/ Unified_Collect
    \/ \E s \in Running(scrapes) :
        \/ Unified_collectWeatherMetaV2(s)
        \/ Unified_collectWeatherV2(s)
        \/ Unified_CheckHomecoach(s)
        \/ Unified_collectHomecoachMetaV2(s)
        \/ Unified_collectHomecoachV2(s)
    \/ \E t \in Running(tasks) :
        \/ Unified_refresh_Read(t)
        \/ Unified_refresh_Lock(t)
        \/ Unified_refresh_Commit(t)
        \/ Unified_refresh_DeferLock(t)
        \/ Unified_refresh_Defer(t)

\* ------------------------- NetatmoCollector and HomeCoachCollector (legacy)
\* Variant of Legacy_Collect that records the attempt itself before it starts
\* the goroutine.
Legacy_Collect_Marks(c) ==
    /\ Registered(c)
    /\ BagCardinality(scrapes) < MaxScrapes
    /\ IF RefreshDue(c, clock)
       THEN /\ BagCardinality(tasks) < MaxTasks
            /\ tasks' = Add(tasks, Task("spawned", c, clock, ZeroTime, NoResult))
            /\ lastTrigger' = [lastTrigger EXCEPT ![c] = clock]
            /\ UNCHANGED lastFailed
       ELSE UNCHANGED <<tasks, lastTrigger, lastFailed>>
    /\ scrapes' = Add(scrapes, Scrape("status", ZeroTime))
    /\ sent' = NoSend
    /\ lastRefresh' = IF RefreshDue(c, clock) THEN [lastRefresh EXCEPT ![c] = clock] ELSE lastRefresh
    /\ UNCHANGED <<cfg, tokenFile, web, client, clock, lastRefreshError, lastRefreshDuration,
                   cacheTimestamp, cachedData, cacheLock>>

\* Collect of a legacy collector: now := c.clock(); if due { go refresh(now) }
Legacy_Collect(c) ==
    /\ Registered(c)
    /\ BagCardinality(scrapes) < MaxScrapes
    /\ IF RefreshDue(c, clock)
       THEN /\ BagCardinality(tasks) < MaxTasks
            /\ tasks' = Add(tasks, Task("spawned", c, clock, ZeroTime, NoResult))
            /\ lastTrigger' = [lastTrigger EXCEPT ![c] = clock]
            /\ UNCHANGED lastFailed
       ELSE UNCHANGED <<tasks, lastTrigger, lastFailed>>
    /\ scrapes' = Add(scrapes, Scrape("status", ZeroTime))
    /\ sent' = NoSend
    /\ UNCHANGED <<cfg, tokenFile, web, client, clock, cacheVars, cacheLock>>

NetatmoCollector_Collect == Legacy_Collect("netatmo")

HomeCoachCollector_Collect == Legacy_Collect("homecoach")

\* NetatmoCollector.Collect: the status metrics, read without the lock
NetatmoCollector_Collect_Status(s) ==
    /\ Registered("netatmo")
    /\ s.pc = "status"
    /\ sent' = Sent("netatmo", "meta",
                    NetatmoCollector_CollectStatus(lastRefresh["netatmo"],
                        lastRefreshError["netatmo"], lastRefreshDuration["netatmo"]))
    /\ scrapes' = Replace(scrapes, s, Scrape("cached", ZeroTime))
    /\ UNCHANGED <<cfg, tokenFile, web, client, clock, cacheVars, cacheLock, tasks, lastTrigger, lastFailed>>

\* NetatmoCollector.Collect: RLock, the cache metrics, RUnlock; Collect returns
NetatmoCollector_Collect_Cached(s) ==
    /\ Registered("netatmo")
    /\ s.pc = "cached"
    /\ CanRLock("netatmo")
    /\ sent' = Sent("netatmo", "data",
                    NetatmoCollector_CollectCached(cacheTimestamp["netatmo"],
                        cachedData["netatmo"], clock))
    /\ scrapes' = Remove(scrapes, s)
    /\ UNCHANGED <<cfg, tokenFile, web, client, clock, cacheVars, cacheLock, tasks, lastTrigger, lastFailed>>

\* HomeCoachCollector.Collect: the status metrics, read without the lock
HomeCoachCollector_Collect_Status(s) ==
    /\ Registered("homecoach")
    /\ s.pc = "status"
    /\ sent' = Sent("homecoach", "meta",
                    HomeCoachCollector_CollectStatus(lastRefresh["homecoach"],
                        lastRefreshError["homecoach"], lastRefreshDuration["homecoach"]))
    /\ scrapes' = Replace(scrapes, s, Scrape("cached", ZeroTime))
    /\ UNCHANGED <<cfg, tokenFile, web, client, clock, cacheVars, cacheLock, tasks, lastTrigger, lastFailed>>

\* HomeCoachCollector.Collect: RLock, the cache metrics, RUnlock; Collect returns
HomeCoachCollector_Collect_Cached(s) ==
    /\ Registered("homecoach")
    /\ s.pc = "cached"
    /\ CanRLock("homecoach")
    /\ sent' = Sent("homecoach", "data",
                    HomeCoachCollector_CollectCached(cacheTimestamp["homecoach"],
                        cachedData["homecoach"], clock))
    /\ scrapes' = Remove(scrapes, s)
    /\ UNCHANGED <<cfg, tokenFile, web, client, clock, cacheVars, cacheLock, tasks, lastTrigger, lastFailed>>

IsLegacy(c) == c \in {"netatmo", "homecoach"}

\* Variant of Legacy_refresh_Start that takes the lock before the reader is
\* called.
Legacy_refresh_Start_LocksFirst(t) ==
    /\ t.pc = "spawned"
    /\ IsLegacy(t.cache)
    /\ CanLock(t.cache)
    /\ cacheLock' = Lock(t.cache)
    /\ lastRefresh' = [lastRefresh EXCEPT ![t.cache] = t.now]
    /\ tasks' = Replace(tasks, t, Task("reading", t.cache, t.now, clock, NoResult))
    /\ sent' = NoSend
    /\ UNCHANGED <<cfg, tokenFile, web, client, clock, lastRefreshError, lastRefreshDuration, cacheTimestamp,
                   cachedData, scrapes, lastTrigger, lastFailed>>

\* RefreshData / refreshData: c.lastRefresh = now (no lock); the deferred
\* function takes start := c.clock(); the reader is called
Legacy_refresh_Start(t) ==
    /\ t.pc = "spawned"
    /\ IsLegacy(t.cache)
    /\ lastRefresh' = [lastRefresh EXCEPT ![t.cache] = t.now]
    /\ tasks' = Replace(tasks, t, Task("reading", t.cache, t.now, clock, NoResult))
    /\ sent' = NoSend
    /\ UNCHANGED <<cfg, tokenFile, web, client, clock, lastRefreshError, lastRefreshDuration, cacheTimestamp,
                   cachedData, cacheLock, scrapes, lastTrigger, lastFailed>>

\* Variant of Legacy_refresh_Read that records the duration only when the read
\* succeeded.
Legacy_refresh_Read_NoDurationOnError(t) ==
    /\ t.pc = "reading"
    /\ IsLegacy(t.cache)
    /\ \E r \in ReadFunction(t.cache) :
        /\ lastRefreshError' = [lastRefreshError EXCEPT ![t.cache] = r.err]
        /\ lastFailed' = IF r.err # NoErr THEN RecordFailure(t) ELSE lastFailed
        /\ IF r.err # NoErr
           THEN tasks' = Remove(tasks, t)
           ELSE tasks' = Replace(tasks, t, Task("lock", t.cache, t.now, t.start, r))
    /\ sent' = NoSend
    /\ UNCHANGED <<cfg, tokenFile, web, client, clock, lastRefresh, lastRefreshDuration, cacheTimestamp,
                   cachedData, cacheLock, scrapes, lastTrigger>>

\* the reader returns: c.lastRefreshError = err (no lock); on an error return,
\* and the deferred function sets lastRefreshDuration
Legacy_refresh_Read(t) ==
    /\ t.pc = "reading"
    /\ IsLegacy(t.cache)
    /\ \E r \in ReadFunction(t.cache) :
        /\ lastRefreshError' = [lastRefreshError EXCEPT ![t.cache] = r.err]
        /\ lastFailed' = IF r.err # NoErr THEN RecordFailure(t) ELSE lastFailed
        /\ IF r.err # NoErr
           THEN /\ lastRefreshDuration' =
                        [lastRefreshDuration EXCEPT ![t.cache] = clock - t.start]
                /\ tasks' = Remove(tasks, t)
           ELSE /\ tasks' = Replace(tasks, t, Task("lock", t.cache, t.now, t.start, r))
                /\ UNCHANGED lastRefreshDuration
    /\ sent' = NoSend
    /\ UNCHANGED <<cfg, tokenFile, web, client, clock, lastRefresh, cacheTimestamp, cachedData, cacheLock, scrapes, lastTrigger>>

\* c.cacheLock.Lock()
Legacy_refresh_Lock(t) ==
    /\ t.pc = "lock"
    /\ IsLegacy(t.cache)
    /\ CanLock(t.cache)
    /\ cacheLock' = Lock(t.cache)
    /\ tasks' = Replace(tasks, t, [t EXCEPT !.pc = "commit"])
    /\ sent' = NoSend
    /\ UNCHANGED <<cfg, tokenFile, web, client, clock, cacheVars, scrapes, lastTrigger, lastFailed>>

\* c.cacheTimestamp = now; c.cachedData = data; Unlock; the deferred function
\* sets lastRefreshDuration
Legacy_refresh_Commit(t) ==
    /\ t.pc = "commit"
    /\ IsLegacy(t.cache)
    /\ cacheTimestamp' = [cacheTimestamp EXCEPT ![t.cache] = t.now]
    /\ cachedData' = [cachedData EXCEPT ![t.cache] = t.data]
    /\ cacheLock' = Unlock(t.cache)
    /\ lastRefreshDuration' = [lastRefreshDuration EXCEPT ![t.cache] = clock - t.start]
    /\ tasks' = Remove(tasks, t)
    /\ sent' = NoSend
    /\ UNCHANGED <<cfg, tokenFile, web, client, clock, lastRefresh, lastRefreshError, scrapes, lastTrigger, lastFailed>>

LegacyNext ==
    \/ NetatmoCollector_Collect
    \/ HomeCoachCollector_Collect
    \/ \E s \in Running(scrapes) :
        \/ NetatmoCollector_Collect_Status(s)
        \/ NetatmoCollector_Collect_Cached(s)
        \/ HomeCoachCollector_Collect_Status(s)
        \/ HomeCoachCollector_Collect_Cached(s)
    \/ \E t \in Running(tasks) :
        \/ Legacy_refresh_Start(t)
        \/ Legacy_refresh_Read(t)
        \/ Legacy_refresh_Lock(t)
        \/ Legacy_refresh_Commit(t)

\* ------------------------------------- HomeCoachCollector (token-based)
\* What c.tokenFunc() can return.
TokenResults == {"error", "nil", "invalid", "valid"}

\* json Decode into homeCoachResponse, and the six metrics of each device
Token_deviceMetrics(j) ==
    LET dd == jsonField(j, "dashboard_data", <<>>)
        labels == <<jsonField(j, "_id", ""), jsonField(j, "name", ""),
                    jsonField(j, "home_name", "")>>
    IN  sendMetric(prefix \o "homecoach_temperature", jsonField(dd, "Temperature", 0), labels)
     \o sendMetric(prefix \o "homecoach_humidity", jsonField(dd, "Humidity", 0), labels)
     \o sendMetric(prefix \o "homecoach_co2", jsonField(dd, "CO2", 0), labels)
     \o sendMetric(prefix \o "homecoach_noise", jsonField(dd, "Noise", 0), labels)
     \o sendMetric(prefix \o "homecoach_pressure", jsonField(dd, "Pressure", 0), labels)
     \o sendMetric(prefix \o "homecoach_health_index", jsonField(dd, "health_idx", 0), labels)

\* Variant of Token_Collect that fetches whatever tokenFunc returned.
Token_Collect_FetchesAlways ==
    /\ cfg.collector = "token"
    /\ BagCardinality(scrapes) < MaxScrapes
    /\ \E token \in TokenResults :
          /\ scrapes' = Add(scrapes, Scrape("fetch", ZeroTime))
          /\ sent' = IF token = "valid" THEN NoSend ELSE Sent(token, "token", <<>>)
    /\ UNCHANGED <<cfg, tokenFile, web, client, clock, cacheVars, cacheLock, tasks, lastTrigger, lastFailed>>

\* Collect: token, err := c.tokenFunc(); return on an error, a nil or an
\* invalid token (the step records which); else fetchHomeCoachData is called
Token_Collect ==
    /\ cfg.collector = "token"
    /\ BagCardinality(scrapes) < MaxScrapes
    /\ \E token \in TokenResults :
          IF token = "valid"
          THEN /\ scrapes' = Add(scrapes, Scrape("fetch", ZeroTime))
               /\ sent' = NoSend
          ELSE /\ sent' = Sent(token, "token", <<>>)
               /\ UNCHANGED scrapes
    /\ UNCHANGED <<cfg, tokenFile, web, client, clock, cacheVars, cacheLock, tasks, lastTrigger, lastFailed>>

\* fetchHomeCoachData returns to Collect: an error, or the devices to send
Token_Collect_Fetch(s) ==
    /\ cfg.collector = "token"
    /\ s.pc = "fetch"
    /\ \/ sent' = Sent("none", "token", <<>>)
       \/ \E body \in HomecoachBodies :
             sent' = Sent("none", "token", ForEach(body, Token_deviceMetrics))
    /\ scrapes' = Remove(scrapes, s)
    /\ UNCHANGED <<cfg, tokenFile, web, client, clock, cacheVars, cacheLock, tasks, lastTrigger, lastFailed>>

TokenNext ==
    \/ Token_Collect
    \/ \E s \in Running(scrapes) : Token_Collect_Fetch(s)

Next == Tick \/ UnifiedNext \/ LegacyNext \/ TokenNext

Spec == Init /\ [][Next]_vars

\* The unified collector with both sources enabled.
ConfigBoth == [collector |-> "unified", enableWeather |-> TRUE, enableHomecoach |-> TRUE]

InitBoth ==
    /\ cfg = ConfigBoth
    /\ InitState

NextBoth == Tick \/ UnifiedNext

SpecBoth == InitBoth /\ [][NextBoth]_vars

\* ------------------------------------------------- vocabulary of the claims
IsWeather(c) == c \in {"netatmo", "v2weather"}
IsHomecoach(c) == c \in {"homecoach", "v2homecoach"}

Abs(x) == IF x < 0 THEN 0 - x ELSE x

\* The number of refresh goroutines of cache c at one of the positions pcs.
CountTasks(c, pcs) ==
    LET at == {t \in Running(tasks) : t.cache = c /\ t.pc \in pcs}
        RECURSIVE Sum(_)
        Sum(S) == IF S = {} THEN 0
                  ELSE LET t == CHOOSE x \in S : TRUE
                       IN  CopiesIn(t, tasks) + Sum(S \ {t})
    IN  Sum(at)

\* The upstream reads of cache c that were called and have not returned.
FetchesInFlight(c) == CountTasks(c, {"reading"})

\* Goroutine t takes a step: one copy of it leaves its position.
Steps(t) == CopiesIn(t, tasks') < CopiesIn(t, tasks)

\* This step starts a refresh of cache c.
StartsRefresh(c) ==
    /\ BagCardinality(tasks') > BagCardinality(tasks)
    /\ \E t \in Running(tasks') :
          t.cache = c /\ CopiesIn(t, tasks') > CopiesIn(t, tasks)

\* The items of a cached snapshot: the devices and their linked modules
\* (weather), the devices (homecoach).
ItemsOf(c) ==
    LET cached == cachedData[c]
        devs == {cached.devices[i] : i \in 1..Len(cached.devices)}
    IN  IF cached.isNil THEN {}
        ELSE IF IsWeather(c)
             THEN devs \cup UNION {{d.LinkedModules[j] : j \in 1..Len(d.LinkedModules)} :
                                    d \in devs}
             ELSE devs

\* The measurement timestamp of an item, as a pointer.
MeasuredAt(c, item) ==
    IF IsWeather(c) THEN item.DashboardData.LastMeasure
    ELSE <<item.DashboardData.TimeUTC>>

Expired(c, item) ==
    MeasuredAt(c, item) # Nil /\ clock - MeasuredAt(c, item)[1] > StaleThreshold

\* The metrics of the batch just sent that carry the identity of item: the
\* device_id label (unified), the module label (NetatmoCollector), the
\* device_id label (HomeCoachCollector).
SentFor(c, item) ==
    {k \in 1..Len(sent.metrics) :
        LET l == sent.metrics[k].labels IN
        /\ l # <<>>
        /\ IF IsV2(c) THEN l[2] = item.ID
           ELSE IF c = "netatmo"
                THEN l[1] = (IF item.ModuleName = "" THEN "id-" \o item.ID
                             ELSE item.ModuleName)
                ELSE l[1] = item.ID}

\* The up value of the meta batch just sent.
SentUp == sent.metrics[1].value

\* The measurements an item can carry.
MetricKeys ==
    {"updated", "temperature", "humidity", "co2", "noise", "pressure",
     "wind_strength", "wind_angle", "rain", "battery", "wifi", "rf", "health_index"}

\* The name of the metric of a measurement: the sensor descriptors of the
\* unified collector and of NetatmoCollector, the descriptors of
\* HomeCoachCollector (which has none for the measurement time).
SensorDesc(c, key) ==
    IF c = "homecoach"
    THEN prefix \o "homecoach_" \o
            (CASE key = "temperature" -> "temperature"
               [] key = "humidity" -> "humidity"
               [] key = "co2" -> "co2"
               [] key = "noise" -> "noise"
               [] key = "pressure" -> "pressure"
               [] key = "health_index" -> "health_index"
               [] key = "wifi" -> "wifi_signal_strength"
               [] OTHER -> "")
    ELSE sensorPrefix \o
            (CASE key = "updated" -> "updated"
               [] key = "temperature" -> "temperature_celsius"
               [] key = "humidity" -> "humidity_percent"
               [] key = "co2" -> "co2_ppm"
               [] key = "noise" -> "noise_db"
               [] key = "pressure" -> "pressure_mb"
               [] key = "wind_strength" -> "wind_strength_kph"
               [] key = "wind_angle" -> "wind_direction_degrees"
               [] key = "rain" -> "rain_amount_mm"
               [] key = "battery" -> "battery_percent"
               [] key = "wifi" -> "wifi_signal_strength"
               [] key = "rf" -> "rf_signal_strength"
               [] key = "health_index" -> "health_index")

\* The collector of cache c has a metric for the measurement.
HasMetric(c, key) ==
    c = "homecoach" =>
        key \in {"temperature", "humidity", "co2", "noise", "pressure",
                 "health_index", "wifi"}

\* The response body a cached homecoach snapshot was decoded from.
UpstreamBody(cached) ==
    CHOOSE b \in HomecoachBodies : Data(HomeCoachResponse(b)) = cached

\* What upstream reported for a measurement of an item: a pointer to the
\* value, nil when upstream did not report it.
Upstream(c, item, key) ==
    IF IsWeather(c)
    THEN CASE key = "updated" -> item.DashboardData.LastMeasure
           [] key = "temperature" -> item.DashboardData.Temperature
           [] key = "humidity" -> item.DashboardData.Humidity
           [] key = "co2" -> item.DashboardData.CO2
           [] key = "noise" -> item.DashboardData.Noise
           [] key = "pressure" -> item.DashboardData.Pressure
           [] key = "wind_strength" -> item.DashboardData.WindStrength
           [] key = "wind_angle" -> item.DashboardData.WindAngle
           [] key = "rain" -> item.DashboardData.Rain
           [] key = "battery" -> item.BatteryPercent
           [] key = "wifi" -> item.WifiStatus
           [] key = "rf" -> item.RFStatus
           [] OTHER -> Nil
    ELSE LET body == UpstreamBody(cachedData[c])
             j == CHOOSE x \in {body[i] : i \in 1..Len(body)} : x._id = item.ID
             dd == j.dashboard_data
             jsonKey == CASE key = "updated" -> "time_utc"
                          [] key = "temperature" -> "Temperature"
                          [] key = "humidity" -> "Humidity"
                          [] key = "co2" -> "CO2"
                          [] key = "noise" -> "Noise"
                          [] key = "pressure" -> "Pressure"
                          [] key = "health_index" -> "health_idx"
                          [] OTHER -> ""
         IN  IF key = "wifi"
             THEN (IF "wifi_status" \in DOMAIN j THEN <<j.wifi_status>> ELSE Nil)
             ELSE IF jsonKey \in DOMAIN dd THEN <<dd[jsonKey]>> ELSE Nil

\* A refresh of cache c has succeeded: its data is committed, or its read
\* returned without an error and the goroutine is on its way to commit.
HasSucceeded(c) ==
    \/ ~cachedData[c].isNil
    \/ \E t \in Running(tasks) :
          t.cache = c /\ t.pc \in {"lock", "commit"} /\ t.err = NoErr

\* The sources the unified collector is configured not to serve.
DisabledSources ==
    IF cfg.collector # "unified" THEN {}
    ELSE (IF cfg.enableWeather THEN {} ELSE {"v2weather"})
            \cup (IF cfg.enableHomecoach THEN {} ELSE {"v2homecoach"})

\* The device_class label and the meta metric names of a unified source.
DeviceClass(c) == IF c = "v2weather" THEN "weather" ELSE "homecoach"
MetaDescs(c) ==
    LET infix == IF c = "v2weather" THEN "" ELSE "homecoach_" IN
    {prefix \o infix \o n :
        n \in {"up", "refresh_interval_seconds", "last_refresh_time",
               "last_refresh_duration_seconds", "cache_updated_time"}}

\* ---------------------------------------------------------------- claims

\* C1: for each data source, at most one upstream fetch started by a collector
\* is in flight in every reachable state, also under concurrent scrapes.
C1_SingleFlight == \A c \in Caches : FetchesInFlight(c) <= 1

\* C2: two scrapes whose times differ by less than the refresh interval start
\* at most one upstream fetch of a source between them: a step that starts a
\* refresh of a source does so at least one refresh interval away from the
\* trigger time of the refresh of that source started before it.
C2_OneFetchPerInterval ==
    [][\A c \in Caches :
          StartsRefresh(c) =>
              \/ lastTrigger[c] = ZeroTime
              \/ Abs(lastTrigger'[c] - lastTrigger[c]) >= RefreshInterval]_vars

\* The step in which goroutine t records that its upstream read failed: the
\* commit of the unified collector with an error in hand, the return of the
\* reader with an error in a legacy collector (the goroutine then ends).
RecordsFailure(t) ==
    /\ Steps(t)
    /\ \/ IsV2(t.cache) /\ t.pc = "commit" /\ t.err # NoErr
       \/ /\ IsLegacy(t.cache) /\ t.pc = "reading"
          /\ BagCardinality(tasks') < BagCardinality(tasks)

\* C3: when the upstream read of a refresh returns an error, the cached
\* snapshot (and its timestamp) after the refresh records it is exactly the one
\* before, and the source's last error is that error.
C3_FailureKeepsSnapshot ==
    [][\A t \in Running(tasks) :
          RecordsFailure(t) =>
              /\ cachedData' = cachedData
              /\ cacheTimestamp' = cacheTimestamp
              /\ lastRefreshError'[t.cache] \in Errors
              /\ IsV2(t.cache) => lastRefreshError'[t.cache] = t.err]_vars

\* A failure was recorded for a source that holds a snapshot.
C3_Witness ==
    \E c \in Caches : lastRefreshError[c] \in Errors /\ ~cachedData[c].isNil

\* C4: an item whose measurement is older than the stale threshold contributes
\* no observation to a scrape, for every source.
C4_StaleItemsSuppressed ==
    sent.part = "data" /\ sent.cache \in Caches =>
        \A item \in ItemsOf(sent.cache) :
            Expired(sent.cache, item) => SentFor(sent.cache, item) = {}

\* C5: a metric that upstream did not report for an item never appears for
\* that item: every item observation in a scrape is of a measurement upstream
\* reported, with the value it reported.
C5_OnlyReportedMetrics ==
    sent.part = "data" /\ sent.cache \in Caches =>
        \A k \in 1..Len(sent.metrics) :
            sent.metrics[k].labels # <<>> =>
                \E item \in ItemsOf(sent.cache), key \in MetricKeys :
                    /\ k \in SentFor(sent.cache, item)
                    /\ sent.metrics[k].desc = SensorDesc(sent.cache, key)
                    /\ Upstream(sent.cache, item, key) # Nil
                    /\ sent.metrics[k].value = Upstream(sent.cache, item, key)[1]

\* C6: a health metric up is 1 only if the last refresh error of the source is
\* nil and a refresh of the source has succeeded; it is 0 before the first
\* refresh completed, also while that refresh is in flight.
C6_UpOnlyAfterSuccess ==
    sent.part = "meta" /\ sent.cache \in Caches /\ SentUp = 1 =>
        /\ lastRefreshError[sent.cache] = NoErr
        /\ HasSucceeded(sent.cache)

\* C7: no Collect call ever waits for an upstream read to return: a scrape is
\* never at a position where its next step is the return of the upstream call.
C7_ScrapeNeverWaitsForUpstream ==
    \A s \in Running(scrapes) : s.pc # "fetch"

\* C8: the lock of a cache is held exactly while one refresh goroutine is
\* between its Lock and its Unlock (commit, or the deferred duration write),
\* so never by a goroutine whose upstream read is in flight.
C8_NoLockDuringRead ==
    \A c \in Caches :
        CountTasks(c, {"commit", "defer"}) = (IF cacheLock[c] THEN 1 ELSE 0)

\* An upstream read is in flight while the lock of its cache is held (by the
\* commit of another goroutine).
C8_Witness ==
    \E t \in Running(tasks) : t.pc = "reading" /\ cacheLock[t.cache]

\* C9: while the last refresh of a source has failed and a committed snapshot
\* exists, a scrape gets on to send its batches, up is 0, and every measurement
\* upstream reported for an item of the snapshot that has a measurement time
\* and is not expired is observed with its value.
C9_FailedRefreshStillServes ==
    \A c \in Caches :
        lastRefreshError[c] # NoErr /\ ~cachedData[c].isNil /\ sent.cache = c =>
            /\ sent.part = "meta" => SentUp = 0
            /\ sent.part = "data" =>
                  \A item \in ItemsOf(c), key \in MetricKeys :
                      /\ MeasuredAt(c, item) # Nil
                      /\ ~Expired(c, item)
                      /\ Upstream(c, item, key) # Nil
                      /\ HasMetric(c, key)
                      => \E k \in SentFor(c, item) :
                            /\ sent.metrics[k].desc = SensorDesc(c, key)
                            /\ sent.metrics[k].value = Upstream(c, item, key)[1]

\* A scrape sent the observations of a snapshot after a failed refresh.
C9_Witness ==
    \E c \in Caches :
        /\ lastRefreshError[c] # NoErr /\ ~cachedData[c].isNil
        /\ sent.cache = c /\ sent.part = "data"
        /\ \E item \in ItemsOf(c) : SentFor(c, item) # {}

\* A scrape sent up = 0 after a failed refresh while a snapshot exists.
C9_WitnessUp ==
    \E c \in Caches :
        /\ lastRefreshError[c] # NoErr /\ ~cachedData[c].isNil
        /\ sent.cache = c /\ sent.part = "meta" /\ SentUp = 0

\* C10: a source disabled in the unified collector gets no item observation and
\* no health metric in any scrape, no refresh goroutine is ever started for it
\* (its reader is never called), and its state stays as constructed.
C10_DisabledSourceUntouched ==
    \A c \in DisabledSources :
        /\ sent.cache # c
        /\ \A k \in 1..Len(sent.metrics) :
              /\ sent.metrics[k].desc \notin MetaDescs(c)
              /\ sent.metrics[k].labels # <<>> =>
                    sent.metrics[k].labels[1] # DeviceClass(c)
        /\ CountTasks(c, {"reading", "lock", "commit", "deferLock", "defer"}) = 0
        /\ lastTrigger[c] = ZeroTime
        /\ lastRefresh[c] = ZeroTime
        /\ lastRefreshError[c] = NoErr
        /\ lastRefreshDuration[c] = 0
        /\ cachedData[c] = NoData
        /\ ~cacheLock[c]

\* The unified collector with a disabled source served a scrape from its
\* other source.
C10_Witness ==
    /\ DisabledSources # {}
    /\ sent.part = "data"
    /\ sent.metrics # <<>>

\* The last refresh of cache c succeeded.
Healthy(c) == lastRefreshError[c] = NoErr /\ ~cachedData[c].isNil

\* Refreshes of cache c were committed and every one of them failed.
AlwaysFailed(c) == lastRefreshError[c] # NoErr /\ cachedData[c].isNil

\* The data batch just sent from cache c holds every measurement upstream
\* reported for the items of the snapshot that have a measurement time and are
\* not expired.
AllReportedSent(c) ==
    \A item \in ItemsOf(c), key \in MetricKeys :
        /\ MeasuredAt(c, item) # Nil
        /\ ~Expired(c, item)
        /\ Upstream(c, item, key) # Nil
        /\ HasMetric(c, key)
        => \E k \in SentFor(c, item) :
              /\ sent.metrics[k].desc = SensorDesc(c, key)
              /\ sent.metrics[k].value = Upstream(c, item, key)[1]

\* C11: in the unified collector with both sources enabled, while the last
\* refresh of one source succeeded and every refresh of the other failed, a
\* scrape sends up = 1 and the item observations of the healthy source, up = 0
\* and no item observation of the failing source.
C11_HealthyAndFailingSource ==
    cfg = ConfigBoth =>
        \A h, f \in {"v2weather", "v2homecoach"} :
            h # f /\ Healthy(h) /\ AlwaysFailed(f) =>
                /\ sent.cache = h /\ sent.part = "meta" => SentUp = 1
                /\ sent.cache = h /\ sent.part = "data" => AllReportedSent(h)
                /\ sent.cache = f /\ sent.part = "meta" => SentUp = 0
                /\ sent.cache = f /\ sent.part = "data" => sent.metrics = <<>>

\* With weather healthy and every homecoach refresh failed, a scrape sent the
\* weather observations.
C11_Witness ==
    /\ cfg = ConfigBoth
    /\ Healthy("v2weather") /\ AlwaysFailed("v2homecoach")
    /\ sent.cache = "v2weather" /\ sent.part = "data" /\ sent.metrics # <<>>

\* With homecoach healthy and every weather refresh failed, a scrape sent the
\* homecoach health metrics.
C11_WitnessFailingWeather ==
    /\ cfg = ConfigBoth
    /\ Healthy("v2homecoach") /\ AlwaysFailed("v2weather")
    /\ sent.cache = "v2homecoach" /\ sent.part = "meta"

\* The human-readable name of an item, and the label of an observation that
\* carries it: module (NetatmoCollector, unified weather), device_name
\* (HomeCoachCollector), station (unified homecoach, whose module label is
\* always empty).
ItemName(c, item) == IF IsWeather(c) THEN item.ModuleName ELSE item.StationName

NameLabel(c, labels) ==
    CASE c = "netatmo" -> labels[1]
      [] c = "v2weather" -> labels[4]
      [] c = "homecoach" -> labels[2]
      [] c = "v2homecoach" -> labels[5]

\* C12: every item observation sent carries as its name label the name of the
\* item when that is not empty, else "id-" followed by the ID of the item;
\* so never an empty name label.
C12_NameLabelOrFallback ==
    sent.part = "data" /\ sent.cache \in Caches =>
        \A item \in ItemsOf(sent.cache) :
            \A k \in SentFor(sent.cache, item) :
                NameLabel(sent.cache, sent.metrics[k].labels) =
                    (IF ItemName(sent.cache, item) # ""
                     THEN ItemName(sent.cache, item)
                     ELSE "id-" \o item.ID)

\* C13: a successful refresh becomes visible in one step: in every state a
\* scrape can read, a last-attempt time that is set together with a nil last
\* error comes with the snapshot of that very attempt (in the legacy
\* collectors: with the cache timestamp of that attempt).
C13_SuccessVisibleAtomically ==
    \A c \in Caches :
        lastRefresh[c] # ZeroTime /\ lastRefreshError[c] = NoErr =>
            /\ ~cachedData[c].isNil
            /\ IsLegacy(c) => cacheTimestamp[c] = lastRefresh[c]

\* A step writes a RefreshState field of cache c.
WritesField(c) ==
    \/ lastRefresh'[c] # lastRefresh[c]
    \/ lastRefreshError'[c] # lastRefreshError[c]
    \/ lastRefreshDuration'[c] # lastRefreshDuration[c]
    \/ cacheTimestamp'[c] # cacheTimestamp[c]
    \/ cachedData'[c] # cachedData[c]

\* C14: every write of a RefreshState field of a source (last-attempt time,
\* last error, last duration, snapshot, snapshot timestamp) is made while the
\* lock of that source is held: a step that changes a field of cache c starts
\* in a state where the lock of c is taken.
C14_FieldsOnlyUnderLock ==
    [][\A c \in Caches : WritesField(c) => cacheLock[c]]_vars

\* The exporter process as main builds it: /metrics/v1 served by the legacy
\* HomeCoachCollector and /metrics/v2 by the unified collector.  Both endpoints
\* are scraped within one refresh interval: the clock does not move.
InitMain ==
    /\ cfg = ConfigMain
    /\ InitState

NextMain ==
    \/ HomeCoachCollector_Collect
    \/ Unified_Collect
    \/ \E s \in Running(scrapes) :
        \/ HomeCoachCollector_Collect_Status(s)
        \/ HomeCoachCollector_Collect_Cached(s)
        \/ Unified_CheckHomecoach(s)
        \/ Unified_collectHomecoachMetaV2(s)
        \/ Unified_collectHomecoachV2(s)
    \/ \E t \in Running(tasks) :
        \/ Legacy_refresh_Start(t)
        \/ Legacy_refresh_Read(t)
        \/ Legacy_refresh_Lock(t)
        \/ Legacy_refresh_Commit(t)
        \/ Unified_refresh_Read(t)
        \/ Unified_refresh_Lock(t)
        \/ Unified_refresh_Commit(t)
        \/ Unified_refresh_DeferLock(t)
        \/ Unified_refresh_Defer(t)

SpecMain == InitMain /\ [][NextMain]_vars

\* C15: the legacy and the unified view of the homecoach source read one
\* RefreshState: whenever no refresh is in flight, the last-attempt time, the
\* up flag (error nil or not) and the snapshot behind /metrics/v1 and behind
\* /metrics/v2 are the same.
C15_ViewsShareState ==
    tasks = EmptyBag =>
        /\ lastRefresh["homecoach"] = lastRefresh["v2homecoach"]
        /\ (lastRefreshError["homecoach"] = NoErr) = (lastRefreshError["v2homecoach"] = NoErr)
        /\ cachedData["homecoach"] = cachedData["v2homecoach"]

\* The time a collector reports as the timestamp of its cached data
\* (cache_updated_time): cacheTimestamp in the legacy collectors,
\* weatherLastRefresh / homecoachLastRefresh in the unified collector.
SnapshotTimestamp(c) == IF IsV2(c) THEN lastRefresh[c] ELSE cacheTimestamp[c]

\* C16: in every reachable state of a cache the timestamp of the cached data
\* is set if and only if a snapshot is present.
C16_TimestampIffSnapshot ==
    \A c \in Caches : (SnapshotTimestamp(c) # ZeroTime) <=> ~cachedData[c].isNil

\* The refresh goroutine t returns in this step.
Finishes(t) == Steps(t) /\ BagCardinality(tasks') < BagCardinality(tasks)

\* C17: when a refresh operation finishes, whether its read succeeded or
\* failed, the last duration of its source is the time between the start of
\* that operation and its end.
C17_DurationOfEveryRefresh ==
    [][\A t \in Running(tasks) :
          Finishes(t) => lastRefreshDuration'[t.cache] = clock - t.start]_vars

\* A refresh that failed has finished one tick after its start.
C17_Witness ==
    \E c \in Caches :
        /\ lastRefreshError[c] # NoErr
        /\ lastRefreshDuration[c] = 1
        /\ CountTasks(c, {"spawned", "reading", "lock", "commit", "deferLock", "defer"}) = 0

\* A refresh that succeeded has finished one tick after its start.
C17_WitnessSuccess ==
    \E c \in Caches :
        /\ lastRefreshError[c] = NoErr
        /\ ~cachedData[c].isNil
        /\ lastRefreshDuration[c] = 1
        /\ CountTasks(c, {"spawned", "reading", "lock", "commit", "deferLock", "defer"}) = 0

\* The names of the four health metrics of a source: up, refresh interval,
\* last-attempt time, last duration.
HealthDescs(c) ==
    LET infix == IF IsWeather(c) THEN "" ELSE "homecoach_" IN
    {prefix \o infix \o n :
        n \in {"up", "refresh_interval_seconds", "last_refresh_time",
               "last_refresh_duration_seconds"}}

\* How many metrics of a batch have the name desc.
Count(desc, metrics) ==
    Cardinality({i \in 1..Len(metrics) : metrics[i].desc = desc})

\* The positions of Collect at which the health metrics of a source are sent
\* next, and the source they belong to.
MetaPcs == {"status", "weatherMeta", "homecoachMeta"}
DataPcs == {"cached", "weatherData", "homecoachData"}
MetaSource(s) ==
    IF s.pc = "weatherMeta" THEN "v2weather"
    ELSE IF s.pc = "homecoachMeta" THEN "v2homecoach"
    ELSE IF Registered("netatmo") THEN "netatmo" ELSE "homecoach"

\* The scrape s takes this step; the scrape n is at its position after it.
ScrapeMoves(s) == CopiesIn(s, scrapes') < CopiesIn(s, scrapes)
ScrapeArrives(n) == CopiesIn(n, scrapes') > CopiesIn(n, scrapes)
ScrapeBegins == BagCardinality(scrapes') > BagCardinality(scrapes)

\* C18: every scrape of a collector with a cache emits, for each enabled
\* source, exactly one up, one refresh interval, one last-attempt time and one
\* last duration, whatever the state of the cache.  A scrape begins at the
\* health metrics of the first enabled source; the step that sends them sends
\* each of the four exactly once; they are sent before the cached data and
\* nowhere else; an enabled homecoach source is not skipped.
C18_OneOfEachHealthMetric ==
    [][/\ \A n \in Running(scrapes') :
            /\ ScrapeBegins /\ ScrapeArrives(n) =>
                  \/ n.pc \in {"status", "weatherMeta", "fetch"}
                  \/ n.pc = "homecoach" /\ ~cfg.enableWeather
            /\ ~ScrapeBegins /\ ScrapeArrives(n) /\ n.pc \in DataPcs =>
                  sent'.part = "meta"
            /\ ~ScrapeBegins /\ ScrapeArrives(n) /\ n.pc \in MetaPcs =>
                  \E s \in Running(scrapes) : ScrapeMoves(s) /\ s.pc = "homecoach"
       /\ \A s \in Running(scrapes) :
            /\ ScrapeMoves(s) /\ s.pc \in MetaPcs =>
                  /\ sent'.part = "meta"
                  /\ sent'.cache = MetaSource(s)
                  /\ \A d \in HealthDescs(sent'.cache) : Count(d, sent'.metrics) = 1
            /\ ScrapeMoves(s) /\ s.pc \in DataPcs =>
                  /\ sent'.part = "data"
                  /\ \A d \in HealthDescs(sent'.cache) : Count(d, sent'.metrics) = 0
            /\ ScrapeMoves(s) /\ s.pc = "homecoach" /\ cfg.enableHomecoach =>
                  \E n \in Running(scrapes') : ScrapeArrives(n) /\ n.pc = "homecoachMeta"
      ]_vars

\* The health metrics were just sent from a cache that no refresh has touched.
C18_Witness ==
    \E c \in Caches :
        /\ sent.cache = c /\ sent.part = "meta"
        /\ IsZero(lastRefresh[c]) /\ cachedData[c].isNil

\* The health metrics were just sent after a failed refresh.
C18_WitnessFailure ==
    \E c \in Caches :
        /\ sent.cache = c /\ sent.part = "meta"
        /\ lastRefreshError[c] # NoErr

\* The health metrics were just sent while every item of the snapshot is expired.
C18_WitnessExpired ==
    \E c \in Caches :
        /\ sent.cache = c /\ sent.part = "meta"
        /\ ItemsOf(c) # {}
        /\ \A item \in ItemsOf(c) : Expired(c, item)

\* The refresh goroutine t applies its result in this step: the commit, or in
\* the legacy collectors the return after a failed read.
Commits(t) ==
    /\ Steps(t)
    /\ \/ t.pc = "commit"
       \/ IsLegacy(t.cache) /\ t.pc = "reading" /\ Finishes(t)

\* After this step no other refresh of the cache of t has a result to apply.
CommitsLast(t) ==
    \A u \in Running(tasks') : u.cache = t.cache => u.pc \in {"deferLock", "defer"}

\* C19: when refreshes of one source overlap and all have finished, the state
\* is that of the refresh that committed last: the last-attempt time, the last
\* error and, when that refresh succeeded, the snapshot (and its timestamp)
\* are those of that one refresh.
C19_LastCommitWins ==
    [][\A t \in Running(tasks) :
          Commits(t) /\ CommitsLast(t) =>
              /\ lastRefresh'[t.cache] = t.now
              /\ t.pc = "commit" =>
                    /\ lastRefreshError'[t.cache] = t.err
                    /\ t.err = NoErr =>
                          /\ cachedData'[t.cache] = t.data
                          /\ IsLegacy(t.cache) => cacheTimestamp'[t.cache] = t.now
      ]_vars

\* The source whose lock a scrape of the unified collector takes next, and the
\* step it takes there.
SourceAt(s) == IF s.pc \in {"weatherMeta", "weatherData"} THEN "v2weather" ELSE "v2homecoach"

ReadsCache(s) ==
    \/ Unified_collectWeatherMetaV2(s)
    \/ Unified_collectWeatherV2(s)
    \/ Unified_collectHomecoachMetaV2(s)
    \/ Unified_collectHomecoachV2(s)

\* An item of the snapshot of c has a measurement time that is not expired.
HasLiveItem(c) ==
    \E item \in ItemsOf(c) : MeasuredAt(c, item) # Nil /\ ~Expired(c, item)

\* A scrape that is about to read source d can take its step whenever the lock
\* of d itself is free, whatever the other source is doing.
ScrapeNeedsOwnLockOnly ==
    \A s \in Running(scrapes) :
        s.pc \in {"weatherMeta", "weatherData", "homecoachMeta", "homecoachData"}
            /\ ~cacheLock[SourceAt(s)]
        => ENABLED ReadsCache(s)

\* A step of a refresh of one source changes no field and no lock of another
\* source; a scrape step reports the up value of the source it reads and, when
\* that source has a live item, observations.
SourcesFramed ==
    /\ \A t \in Running(tasks) :
          Steps(t) =>
              \A d \in Caches \ {t.cache} :
                  /\ lastRefresh'[d] = lastRefresh[d]
                  /\ lastRefreshError'[d] = lastRefreshError[d]
                  /\ lastRefreshDuration'[d] = lastRefreshDuration[d]
                  /\ cacheTimestamp'[d] = cacheTimestamp[d]
                  /\ cachedData'[d] = cachedData[d]
                  /\ cacheLock'[d] = cacheLock[d]
    /\ \A s \in Running(scrapes) :
          ScrapeMoves(s) /\ s.pc \in {"weatherMeta", "homecoachMeta"} =>
              /\ sent'.cache = SourceAt(s)
              /\ sent'.metrics[1].value =
                    upValue(lastRefresh[SourceAt(s)], lastRefreshError[SourceAt(s)])
    /\ \A s \in Running(scrapes) :
          ScrapeMoves(s) /\ s.pc \in {"weatherData", "homecoachData"} =>
              /\ sent'.cache = SourceAt(s)
              /\ HasLiveItem(SourceAt(s)) => Len(sent'.metrics) > 0

\* C20: a slow or failing source never affects another source: a scrape
\* emits the health metrics and observations of a source whenever that
\* source's own lock is free, also while the read of the other source is in
\* flight or has failed, and a refresh of one source changes no state field
\* of the other.
C20_SourcesIndependent == []ScrapeNeedsOwnLockOnly /\ [][SourcesFramed]_vars

\* Observations of homecoach were just sent while the read of weather is in
\* flight.
C20_Witness ==
    /\ sent.cache = "v2homecoach" /\ sent.part = "data" /\ Len(sent.metrics) > 0
    /\ FetchesInFlight("v2weather") > 0

\* Observations of weather were just sent while the refresh of homecoach has
\* taken its lock after a failed read.
C20_WitnessLocked ==
    /\ sent.cache = "v2weather" /\ sent.part = "data" /\ Len(sent.metrics) > 0
    /\ cacheLock["v2homecoach"]
    /\ \E t \in Running(tasks) : t.cache = "v2homecoach" /\ t.pc = "commit" /\ t.err # NoErr

\* -------------------------------------------------------------- scheduling
\* The steps the Go scheduler takes for a refresh goroutine once they are
\* possible: every step but the return of the reader, which waits for the
\* upstream (refreshWeather, refreshHomecoach, RefreshData and refreshData call
\* the reader with no deadline and no cancellation).
GoroutineStep ==
    \E t \in Running(tasks) :
        \/ Unified_refresh_Lock(t)
        \/ Unified_refresh_Commit(t)
        \/ Unified_refresh_DeferLock(t)
        \/ Unified_refresh_Defer(t)
        \/ Legacy_refresh_Start(t)
        \/ Legacy_refresh_Lock(t)
        \/ Legacy_refresh_Commit(t)

\* The steps of a Collect that has begun and does not wait for the upstream.
CollectStep ==
    \E s \in Running(scrapes) :
        \/ Unified_collectWeatherMetaV2(s)
        \/ Unified_collectWeatherV2(s)
        \/ Unified_CheckHomecoach(s)
        \/ Unified_collectHomecoachMetaV2(s)
        \/ Unified_collectHomecoachV2(s)
        \/ NetatmoCollector_Collect_Status(s)
        \/ NetatmoCollector_Collect_Cached(s)
        \/ HomeCoachCollector_Collect_Status(s)
        \/ HomeCoachCollector_Collect_Cached(s)

\* The program with its scheduling: time passes, goroutines and handlers that
\* can take a step take it.  Nothing makes the upstream answer.
SpecLive ==
    /\ Init
    /\ [][Next]_vars
    /\ WF_vars(Tick)
    /\ WF_vars(GoroutineStep)
    /\ WF_vars(CollectStep)

\* C21: every refresh that has called the reader eventually finishes, by
\* committing a result or recording an error, even if the upstream never
\* responds.
C21_RefreshTerminates ==
    \A c \in Caches : (FetchesInFlight(c) > 0) ~> (FetchesInFlight(c) = 0)

\* The step in which goroutine t leaves its write section: Unlock.
Releases(t) ==
    \/ Unified_refresh_Commit(t)
    \/ Unified_refresh_Defer(t)
    \/ Legacy_refresh_Commit(t)

\* The lock of c is held by a goroutine that is in its write section and can
\* leave it.
HolderCanRelease(c) ==
    \E t \in Running(tasks) :
        t.cache = c /\ t.pc \in {"commit", "defer"} /\ ENABLED Releases(t)

\* C37: no interleaving of scrapes and refreshes deadlocks on a source's lock:
\* a held lock is held by a goroutine that can release it (a refresh has
\* released the write lock, on its success path and on its error path, when its
\* deferred duration update asks for it; a scrape holds no lock between its
\* steps), and every lock that is held is released.
C37_NoLockDeadlock ==
    /\ [](\A c \in Caches : cacheLock[c] => HolderCanRelease(c))
    /\ \A c \in Caches : cacheLock[c] ~> ~cacheLock[c]

\* The deferred duration update of a refresh whose read failed holds the lock
\* while a scrape of the source is waiting to read.
C37_Witness ==
    \E c \in {"v2weather", "v2homecoach"} :
        /\ cacheLock[c] /\ lastRefreshError[c] \in Errors
        /\ \E t \in Running(tasks) : t.cache = c /\ t.pc = "defer"
        /\ \E s \in Running(scrapes) :
              s.pc \in {"weatherMeta", "weatherData", "homecoachMeta", "homecoachData"}
                /\ SourceAt(s) = c

\* --------------------------------------------------- weather item staleness
WeatherCaches == {"netatmo", "v2weather"}

\* The age of the measurement of an item at the time of the scrape.
DataAge(c, item) == clock - MeasuredAt(c, item)[1]

\* C38: a weather device or module contributes item observations to a scrape
\* if and only if its measurement timestamp is present and its age is at most
\* the stale threshold (an age equal to the threshold is still emitted);
\* without a measurement timestamp it contributes none, not even battery, wifi
\* or RF values.
C38_WeatherItemEmittedIffFresh ==
    sent.part = "data" /\ sent.cache \in WeatherCaches =>
        \A item \in ItemsOf(sent.cache) :
            SentFor(sent.cache, item) # {}
                <=> /\ MeasuredAt(sent.cache, item) # Nil
                    /\ DataAge(sent.cache, item) <= StaleThreshold

\* One scrape of the unified collector emitted an item whose age equals the
\* threshold and nothing for a module that has a battery value but never
\* measured.
C38_Witness ==
    /\ sent.part = "data" /\ sent.cache = "v2weather"
    /\ \E item \in ItemsOf("v2weather") :
          /\ MeasuredAt("v2weather", item) # Nil
          /\ DataAge("v2weather", item) = StaleThreshold
          /\ SentFor("v2weather", item) # {}
    /\ \E item \in ItemsOf("v2weather") :
          /\ MeasuredAt("v2weather", item) = Nil
          /\ item.BatteryPercent # Nil
          /\ SentFor("v2weather", item) = {}

\* ------------------------------------------------ identity of observations
\* The device IDs of a cached snapshot, in the order the devices are collected.
DeviceIDs(c) ==
    LET cached == cachedData[c]
        ids(d) == <<d.ID>> \o [j \in 1..Len(d.LinkedModules) |-> d.LinkedModules[j].ID]
    IN  IF cached.isNil THEN <<>>
        ELSE IF IsWeather(c)
             THEN Flatten([i \in 1..Len(cached.devices) |-> ids(cached.devices[i])])
             ELSE [i \in 1..Len(cached.devices) |-> cached.devices[i].ID]

DistinctIDs(c) ==
    \A i, j \in 1..Len(DeviceIDs(c)) : i # j => DeviceIDs(c)[i] # DeviceIDs(c)[j]

\* What the registry compares: the descriptor and the label values.
Identity(m) == <<m.desc, m.labels>>

\* C39: within one scrape of the unified collector no two item observations
\* share both metric name and full label set, provided device IDs are distinct
\* within each source: the observations of one source differ in name or in
\* device_id, and every observation carries the device_class of its source, so
\* that a weather item and a homecoach item with equal IDs and names differ.
C39_ObservationsDistinct ==
    sent.part = "data" /\ IsV2(sent.cache) /\ DistinctIDs(sent.cache) =>
        /\ \A i, j \in 1..Len(sent.metrics) :
              i # j => Identity(sent.metrics[i]) # Identity(sent.metrics[j])
        /\ \A i \in 1..Len(sent.metrics) :
              sent.metrics[i].labels[1] = DeviceClass(sent.cache)

\* With both sources enabled a scrape sent the observations of a homecoach
\* device whose ID and station name are those of a weather station in the
\* cache, whose observations of the same name the scrape sends as well.
C39_Witness ==
    /\ cfg.enableWeather /\ cfg.enableHomecoach
    /\ sent.part = "data" /\ sent.cache = "v2homecoach"
    /\ \E k \in 1..Len(sent.metrics) :
          \E i \in 1..Len(collectWeatherV2(cachedData["v2weather"], clock)) :
              LET w == collectWeatherV2(cachedData["v2weather"], clock)[i]
                  h == sent.metrics[k]
              IN  /\ w.desc = h.desc
                  /\ w.labels[2] = h.labels[2]
                  /\ w.labels[5] = h.labels[5]

\* ------------------------------------------------------------ web handlers
Methods == {"GET", "POST"}

\* A reader function value: nil, or a function whose call returns one of results.
Reader(results) == [isNil |-> FALSE, results |-> results]
NilReader == [isNil |-> TRUE, results |-> {}]

\* main: weatherReader = client.Read inside if cfg.EnableWeather, homecoachReader
\* = collector.NewHomecoachReadFunction(...) inside if cfg.EnableHomecoach; a
\* reader of a disabled source keeps the zero value of its var declaration.
MainWeatherReader ==
    IF cfg.enableWeather THEN Reader(ReadFunction("v2weather")) ELSE NilReader
MainHomecoachReader ==
    IF cfg.enableHomecoach THEN Reader(ReadFunction("v2homecoach")) ELSE NilReader

\* DebugNetatmoHandler: one section of the response, from what a reader returned
DebugSection(source, r) ==
    IF r.err # NoErr
    THEN [error |-> "Error retrieving " \o source \o " data: " \o r.err]
    ELSE IF ~r.data.isNil THEN [devices |-> r.data.devices]
    ELSE [devices |-> <<>>]

\* Variant of DebugStatus that answers 502 as soon as one read fails.
DebugStatus_AnyFailure(weatherErr, homecoachErr) ==
    IF weatherErr # NoErr \/ homecoachErr # NoErr THEN 502 ELSE 200

\* DebugNetatmoHandler: the http status
DebugStatus(weatherErr, homecoachErr) ==
    IF weatherErr # NoErr /\ homecoachErr # NoErr THEN 502
    ELSE IF weatherErr # NoErr \/ homecoachErr # NoErr THEN 206
    ELSE 200

\* DebugNetatmoHandler: the response struct that is encoded
DebugResponse(w, h) ==
    [weather |-> DebugSection("weather", w),
     homecoach |-> DebugSection("homecoach", h),
     error |-> IF w.err # NoErr /\ h.err # NoErr
               THEN <<"Both weather and homecoach data retrieval failed">>
               ELSE Nil]

\* A call of an upstream function made by a handler, and what it returned.
Call(fn, result) == [fn |-> fn, result |-> result]

\* DebugNetatmoHandler: the exchanges a request with this method can produce
\* with these two reader functions.  Calling a nil function value panics; the
\* http server recovers the panic and closes the connection without a response.
DebugNetatmoHandler_Serve(method, weatherReadFunc, homecoachReadFunc) ==
    IF method # "GET"
    THEN {Exchange("debugNetatmo", method, <<>>, 405, "Method not allowed")}
    ELSE IF weatherReadFunc.isNil
    THEN {Exchange("debugNetatmo", method, <<>>, NoResponse, "")}
    ELSE IF homecoachReadFunc.isNil
    THEN {Exchange("debugNetatmo", method, <<Call("weatherReadFunc", w)>>, NoResponse, "") :
            w \in weatherReadFunc.results}
    ELSE {Exchange("debugNetatmo", method,
                   <<Call("weatherReadFunc", w), Call("homecoachReadFunc", h)>>,
                   DebugStatus(w.err, h.err), DebugResponse(w, h)) :
            w \in weatherReadFunc.results, h \in homecoachReadFunc.results}

\* GET or POST /debug/netatmo, as main registers the handler
DebugNetatmoHandler ==
    /\ client.state = "running"
    /\ \E method \in Methods :
          web' \in DebugNetatmoHandler_Serve(method, MainWeatherReader, MainHomecoachReader)
    /\ sent' = NoSend
    /\ UNCHANGED <<cfg, tokenFile, client, clock, cacheVars, cacheLock, tasks, scrapes, lastTrigger, lastFailed>>

\* C22: a request to the combined debug endpoint triggers no refresh: the
\* handler calls no upstream reader (and changes no RefreshState).
C22_DebugCallsNoReader ==
    web.handler = "debugNetatmo" => web.calls = <<>>

\* The section of a debug response holds an error message.
IsErrorSection(section) == DOMAIN section = {"error"} /\ section.error # ""

\* C23: the combined debug handler answers 200 when both reads succeed, 206
\* when exactly one fails (the section of the failing source then holds an
\* error message, the other section the devices read), 502 with an overall
\* error only when both fail; a request that is not a GET is answered 405 and
\* calls no reader.
C23_DebugStatusCodes ==
    web.handler = "debugNetatmo" =>
        /\ web.method # "GET" => web.status = 405 /\ web.calls = <<>>
        /\ web.method = "GET" /\ Len(web.calls) = 2 =>
              LET w == web.calls[1].result
                  h == web.calls[2].result
                  wOK == w.err = NoErr
                  hOK == h.err = NoErr
              IN  /\ wOK /\ hOK => web.status = 200
                  /\ wOK # hOK => web.status = 206
                  /\ ~wOK /\ ~hOK => web.status = 502
                  /\ (web.body.error # Nil) <=> (~wOK /\ ~hOK)
                  /\ IF wOK THEN web.body.weather = [devices |-> w.data.devices]
                     ELSE IsErrorSection(web.body.weather)
                  /\ IF hOK THEN web.body.homecoach = [devices |-> h.data.devices]
                     ELSE IsErrorSection(web.body.homecoach)

\* Weather failed, homecoach answered: 206 with the homecoach devices.
C23_Witness ==
    /\ web.handler = "debugNetatmo" /\ web.method = "GET" /\ Len(web.calls) = 2
    /\ web.calls[1].result.err # NoErr
    /\ web.calls[2].result.err = NoErr
    /\ web.status = 206
    /\ web.body.homecoach.devices # <<>>

\* Both reads failed: 502 with the overall error.
C23_WitnessBothFail ==
    /\ web.handler = "debugNetatmo" /\ web.method = "GET" /\ Len(web.calls) = 2
    /\ web.calls[1].result.err # NoErr
    /\ web.calls[2].result.err # NoErr
    /\ web.status = 502

\* A POST is answered 405.
C23_WitnessPost ==
    web.handler = "debugNetatmo" /\ web.method = "POST" /\ web.status = 405

\* C24: with a source disabled by configuration, a GET on /debug/netatmo still
\* completes with a response (no panic), and the reader of a disabled source
\* is not called.
C24_DebugWithDisabledSource ==
    web.handler = "debugNetatmo" /\ web.method = "GET" =>
        /\ web.status \in {200, 206, 502}
        /\ \A i \in 1..Len(web.calls) :
              /\ web.calls[i].fn = "weatherReadFunc" => cfg.enableWeather
              /\ web.calls[i].fn = "homecoachReadFunc" => cfg.enableHomecoach

\* ------------------------------------------------------------ oauth2.Token
\* oauth2.Token: the fields the program looks at.  Expiry ZeroTime is the zero
\* time.Time ("never expires").
OAuthToken(access, refresh, expiry) ==
    [AccessToken |-> access, RefreshToken |-> refresh, Expiry |-> expiry]

OAuthTokens ==
    {OAuthToken(a, r, e) : a \in {"", "access-token"}, r \in {"", "refresh-token"},
                           e \in ZeroTime..MaxClock}

\* oauth2: a token counts as expired expiryDelta before its Expiry (10 s; one
\* tick of the clock here).
expiryDelta == 1

\* oauth2.Token.Valid: AccessToken != "" && !expired(), where a zero Expiry
\* never expires and else Expiry.Add(-expiryDelta).Before(now)
Valid(token, now) ==
    /\ token.AccessToken # ""
    /\ ~(~IsZero(token.Expiry) /\ token.Expiry - expiryDelta < now)

\* client.CurrentToken as a function value: what a call can return.
ErrNotAuthenticated == "ErrNotAuthenticated"
TokenResult(token, err) == [token |-> token, err |-> err]
CurrentTokenResults ==
    {TokenResult(Nil, ErrNotAuthenticated), TokenResult(Nil, NoErr)}
        \cup {TokenResult(Nil, e) : e \in Errors}
        \cup {TokenResult(<<t>>, NoErr) : t \in OAuthTokens}

\* Variant of DebugTokenHandler_Respond that treats ErrNotAuthenticated as any
\* other error.
DebugTokenHandler_Respond_NoSpecialCase(r, now) ==
    IF r.err # NoErr
    THEN [status |-> 500, body |-> "Error retrieving token: " \o r.err]
    ELSE IF r.token = Nil
    THEN [status |-> 404, body |-> "No token available."]
    ELSE [status |-> 200,
          body |-> [isValid |-> Valid(r.token[1], now),
                    hasAccessToken |-> r.token[1].AccessToken # "",
                    hasRefreshToken |-> r.token[1].RefreshToken # "",
                    expiry |-> r.token[1].Expiry]]

\* DebugTokenHandler after tokenFunc returned r: the switch on err, the nil
\* check, the data struct that is encoded (status 200 by default)
DebugTokenHandler_Respond(r, now) ==
    IF r.err # ErrNotAuthenticated /\ r.err # NoErr
    THEN [status |-> 500, body |-> "Error retrieving token: " \o r.err]
    ELSE IF r.token = Nil
    THEN [status |-> 404, body |-> "No token available."]
    ELSE [status |-> 200,
          body |-> [isValid |-> Valid(r.token[1], now),
                    hasAccessToken |-> r.token[1].AccessToken # "",
                    hasRefreshToken |-> r.token[1].RefreshToken # "",
                    expiry |-> r.token[1].Expiry]]

\* DebugTokenHandler: the exchange of a request with this method when
\* tokenFunc, if called, returns r
DebugTokenHandler_Serve(method, r, now) ==
    IF method # "GET"
    THEN Exchange("debugToken", method, <<>>, 405, "Method not allowed")
    ELSE LET resp == DebugTokenHandler_Respond(r, now)
         IN  Exchange("debugToken", method,
                      <<Call("tokenFunc", r), Call("time.Now", now)>>,
                      resp.status, resp.body)

\* GET or POST /debug/token, as main registers the handler
DebugTokenHandler ==
    /\ client.state = "running"
    /\ \E method \in Methods, r \in CurrentTokenResults :
          web' = DebugTokenHandler_Serve(method, r, clock)
    /\ sent' = NoSend
    /\ UNCHANGED <<cfg, tokenFile, client, clock, cacheVars, cacheLock, tasks, scrapes, lastTrigger, lastFailed>>

\* C25: DebugTokenHandler maps what the credential source returned to the
\* response: 500 with the error text for an error other than
\* not-authenticated, 404 "No token available." for not-authenticated or no
\* token, else 200 with isValid, hasAccessToken, hasRefreshToken and expiry of
\* the token; a request that is not a GET is answered 405 and the credential
\* source is not called.
C25_DebugTokenResponses ==
    web.handler = "debugToken" =>
        /\ web.method # "GET" => web.status = 405 /\ web.calls = <<>>
        /\ web.method = "GET" =>
              LET r == web.calls[1].result
                  now == web.calls[2].result
              IN  IF r.err \notin {NoErr, ErrNotAuthenticated}
                  THEN /\ web.status = 500
                       /\ web.body = "Error retrieving token: " \o r.err
                  ELSE IF r.err = ErrNotAuthenticated \/ r.token = Nil
                  THEN /\ web.status = 404
                       /\ web.body = "No token available."
                  ELSE LET t == r.token[1] IN
                       /\ web.status = 200
                       /\ web.body.hasAccessToken = (t.AccessToken # "")
                       /\ web.body.hasRefreshToken = (t.RefreshToken # "")
                       /\ web.body.expiry = t.Expiry
                       /\ web.body.isValid =
                            (/\ t.AccessToken # ""
                             /\ (t.Expiry = ZeroTime \/ t.Expiry - expiryDelta >= now))

\* The credential source answered not-authenticated: 404.
C25_Witness ==
    /\ web.handler = "debugToken" /\ web.method = "GET"
    /\ web.calls[1].result.err = ErrNotAuthenticated
    /\ web.status = 404

\* A token with an access token that has expired: 200, isValid false.
C25_WitnessExpired ==
    /\ web.handler = "debugToken" /\ web.method = "GET"
    /\ web.status = 200
    /\ web.body.hasAccessToken /\ ~web.body.isValid

\* An error of the credential source: 500.
C25_WitnessError ==
    web.handler = "debugToken" /\ web.method = "GET" /\ web.status = 500

\* ------------------------------------------------------------- projection
\* The observations of a batch, as a set.
Observations(batch) == {batch.metrics[i] : i \in DOMAIN batch.metrics}

\* The step taken sends the item observations of a source of the unified
\* collector.
ProjectsData(c) == sent'.cache = c /\ sent'.part = "data"

ChecksDue(c, now) ==
    \/ /\ IsLegacy(c) /\ cfg.collector = c /\ now = clock
       /\ ScrapeArrives(Scrape("status", ZeroTime))
    \/ /\ c = "v2weather" /\ cfg.collector = "unified" /\ cfg.enableWeather /\ now = clock
       /\ ScrapeArrives(Scrape("weatherMeta", clock))
    \/ /\ c = "v2homecoach" /\ cfg.collector = "unified" /\ cfg.enableHomecoach
       /\ ScrapeMoves(Scrape("homecoach", now))

\* The positions of a refresh goroutine.
TaskPcs == {"spawned", "reading", "lock", "commit", "deferLock", "defer"}

\* The refresh goroutines that the step taken has started, per source.
Started(c) == CountTasks(c, TaskPcs)' - CountTasks(c, TaskPcs)

\* C29: a scrape at time now starts a refresh of a source if and only if no
\* attempt has been recorded for that source or now minus the recorded
\* last-attempt time is greater than or equal to the refresh interval (equality
\* triggers); otherwise it starts none, and each triggering scrape starts
\* exactly one refresh per source.
C29_TriggerRule ==
    [][\A c \in Caches : \A now \in 1..MaxClock :
          ChecksDue(c, now) =>
              /\ Started(c) =
                    IF lastRefresh[c] = ZeroTime \/ now - lastRefresh[c] >= RefreshInterval
                    THEN 1 ELSE 0
              /\ \A d \in Caches \ {c} : Started(d) = 0
              /\ Started(c) = 1 => lastTrigger'[c] = now]_vars

\* A scrape exactly one refresh interval after the recorded attempt has started
\* a refresh.
C29_Witness ==
    \E c \in Caches :
        /\ lastRefresh[c] # ZeroTime
        /\ clock - lastRefresh[c] = RefreshInterval
        /\ \E t \in Running(tasks) :
              t.cache = c /\ t.now = clock /\ t.pc \in {"spawned", "reading"}

\* A scrape less than one refresh interval after the recorded attempt has
\* passed its check and no refresh of the source is running.
C29_WitnessNotDue ==
    /\ cfg.collector = "unified" /\ cfg.enableWeather
    /\ lastRefresh["v2weather"] = clock
    /\ \E s \in Running(scrapes) : s.pc = "weatherMeta" /\ s.now = clock
    /\ CountTasks("v2weather", TaskPcs) = 0

\* ---------------------------------------------------------- after a failure
\* The positions of a refresh goroutine before and after its call of the
\* reader has returned.
BeforeRead == {"spawned", "reading"}
AfterRead == {"lock", "commit", "deferLock", "defer"}

\* C30: each refresh operation calls the upstream reader exactly once (a
\* goroutine whose call has returned never calls again), and after a failed
\* refresh no further upstream fetch of that source starts until a scrape
\* occurs at least one refresh interval after the failed attempt's trigger
\* time.
C30_NoRetryWithinInterval ==
    [][/\ \A t \in Running(tasks) :
             Steps(t) /\ t.pc \in AfterRead =>
                 CountTasks(t.cache, BeforeRead)' = CountTasks(t.cache, BeforeRead)
       /\ \A c \in Caches :
             StartsRefresh(c) /\ lastFailed[c] # ZeroTime =>
                 lastTrigger'[c] - lastFailed[c] >= RefreshInterval]_vars

\* -------------------------------------------------------- after a success
\* Goroutine t commits the result of a read that succeeded.
CommitsSuccess(t) == Steps(t) /\ t.pc = "commit" /\ t.err = NoErr

\* C31: after a refresh whose upstream read succeeded has committed, the
\* source's last error is none and its up indicator is 1 on the next scrape,
\* whatever errors earlier refreshes recorded.
C31_SuccessClearsError ==
    [][\A t \in Running(tasks) :
          CommitsSuccess(t) =>
              /\ lastRefreshError'[t.cache] = NoErr
              /\ upValue(lastRefresh'[t.cache], lastRefreshError'[t.cache]) = 1]_vars

\* ------------------------------------------------------ cache_updated_time
\* The value of cache_updated_time that a scrape of the unified collector would
\* send for source c now: the fifth meta metric.
CacheUpdatedTime(c) ==
    collectMetaV2(IF c = "v2weather" THEN "" ELSE "homecoach_", lastRefresh[c],
                  lastRefreshError[c], lastRefreshDuration[c])[5].value

\* C32: in the unified collector the cache_updated_time value of a source is
\* the time of the data currently cached: it is 0 while nothing is cached, the
\* commit of a successful refresh sets it to the trigger time of that refresh,
\* and no other step, in particular no failed refresh, changes it.
C32_CacheTimeIsTimeOfData ==
    [][\A c \in {"v2weather", "v2homecoach"} :
          /\ cachedData[c].isNil => CacheUpdatedTime(c) = 0
          /\ IF \E t \in Running(tasks) : t.cache = c /\ CommitsSuccess(t)
             THEN \E t \in Running(tasks) :
                      t.cache = c /\ CommitsSuccess(t) /\ CacheUpdatedTime(c)' = t.now
             ELSE CacheUpdatedTime(c)' = CacheUpdatedTime(c)]_vars

\* ------------------------------------------------------------------ frame
\* The step taken is a step of a scrape: a Collect call begins, moves on, or
\* sends.
ScrapeStep ==
    \/ ScrapeBegins
    \/ \E s \in Running(scrapes) : ScrapeMoves(s)
    \/ sent'.part # "none"

\* C33: a scrape changes no field of any source's RefreshState itself: the
\* last-attempt time, last error, last duration, snapshot and snapshot timestamp
\* are changed only by steps of that source's refresh operation.
C33_OnlyRefreshWrites ==
    [][/\ ScrapeStep => UNCHANGED cacheVars
       /\ \A c \in Caches :
             WritesField(c) => \E t \in Running(tasks) : t.cache = c /\ Steps(t)]_vars

\* A scrape has just sent the items of a committed snapshot while a later
\* refresh of the source is on its way.
C33_Witness ==
    /\ sent.part = "data" /\ sent.cache \in Caches /\ sent.metrics # <<>>
    /\ ~cachedData[sent.cache].isNil
    /\ \E t \in Running(tasks) : t.cache = sent.cache /\ t.pc \in BeforeRead

\* ------------------------------------------------------ missing credential
\* What tokenFunc returns when there is no usable credential.
NoCredential == {"error", "nil", "invalid"}

\* C34: in the token-based HomeCoachCollector, when the credential source
\* returns an error, or returns no token or an invalid token, Collect emits
\* zero observations, performs no upstream fetch and returns normally: the
\* step that got such a result sends nothing and leaves no call in progress.
C34_NoCredentialNoFetch ==
    [][sent'.part = "token" /\ sent'.cache \in NoCredential =>
          /\ sent'.metrics = <<>>
          /\ scrapes' = scrapes
          /\ tasks' = tasks]_vars

\* Collect has returned after tokenFunc gave an error, while another Collect
\* call, which had a valid token, is fetching.
C34_Witness ==
    /\ sent.part = "token" /\ sent.cache = "error" /\ sent.metrics = <<>>
    /\ \E s \in Running(scrapes) : s.pc = "fetch"

\* ------------------------------------------------------------ monotonicity
\* C35: for each source the recorded last-attempt time never decreases across
\* any sequence of scrapes and refresh completions, including when refreshes
\* triggered at different times finish or are scheduled in a different order
\* than they were triggered.
C35_LastAttemptMonotonic ==
    [][\A c \in Caches : lastRefresh'[c] >= lastRefresh[c]]_vars

\* ------------------------------------------------------ one state per scrape
\* A Collect call of the unified collector has sent the health observations of
\* source c and has not yet read its snapshot.
BetweenHealthAndItems(c) ==
    \E s \in Running(scrapes) :
        s.pc = (IF c = "v2weather" THEN "weatherData" ELSE "homecoachData")

\* C36: within one Collect call of the unified collector, the health
\* observations and the item observations of a source are taken from the same
\* committed RefreshState: no refresh commit can take effect between reading
\* the health fields and reading the snapshot.
C36_HealthAndItemsFromOneState ==
    [][\A c \in {"v2weather", "v2homecoach"} :
          BetweenHealthAndItems(c) => ~WritesField(c)]_vars

\* ---------------------------------------------------------- main: startup
\* loadToken(cfg.TokenFile): no token file configured, os.IsNotExist, another
\* error, or the token decoded from the file.
LoadTokenResults ==
    {TokenResult(Nil, "noTokenFile"), TokenResult(Nil, "notExist")}
        \cup {TokenResult(Nil, e) : e \in Errors}
        \cup {TokenResult(<<t>>, NoErr) : t \in OAuthTokens}

\* loadToken(cfg.TokenFile) for the file as it is: os.ReadFile fails with
\* os.IsNotExist exactly when there is no file.
loadToken(file) ==
    {r \in LoadTokenResults :
        CASE file = NoTokenFile -> r.err = "noTokenFile"
          [] file = "absent" -> r.err = "notExist"
          [] OTHER -> r.err \notin {"noTokenFile", "notExist"}}

\* Variant of main_RestoreToken that installs the token whatever its expiry.
main_RestoreToken_NoExpiryCheck(r, now) ==
    IF r.err \in {"noTokenFile", "notExist"} THEN Client(Nil, "running", r, now)
    ELSE IF r.err # NoErr THEN Client(Nil, "fatal", r, now)
    ELSE LET token == r.token[1]
             renewed == IF token.RefreshToken # "" /\ IsZero(token.Expiry)
                        THEN [token EXCEPT !.Expiry = now + 1]
                        ELSE token
         IN  Client(<<renewed>>, "running", r, now)

\* main: the client after the token file was handled.  No file: nothing is
\* installed.  An error: log.Fatalf.  An expiry that is set and before now:
\* the token is ignored.  Else: a token with a refresh token and no expiry gets
\* the expiry now + 1 s, and client.InitWithToken installs the token.
main_RestoreToken(r, now) ==
    IF r.err \in {"noTokenFile", "notExist"} THEN Client(Nil, "running", r, now)
    ELSE IF r.err # NoErr THEN Client(Nil, "fatal", r, now)
    ELSE LET token == r.token[1]
             renewed == IF token.RefreshToken # "" /\ IsZero(token.Expiry)
                        THEN [token EXCEPT !.Expiry = now + 1]
                        ELSE token
         IN  IF ~IsZero(token.Expiry) /\ token.Expiry < now
             THEN Client(Nil, "running", r, now)
             ELSE Client(<<renewed>>, "running", r, now)

\* main, up to http.ListenAndServe
main ==
    /\ client.state = "starting"
    /\ \E r \in loadToken(tokenFile) : client' = main_RestoreToken(r, clock)
    /\ sent' = NoSend
    /\ UNCHANGED <<cfg, tokenFile, web, clock, cacheVars, cacheLock, tasks, scrapes, lastTrigger, lastFailed>>

\* The token that loadToken returned at startup had an expiry that was set and
\* before the time of the startup.
RestoredExpired(c) ==
    /\ c.restored.err = NoErr
    /\ c.restored.token # Nil
    /\ ~IsZero(c.restored.token[1].Expiry)
    /\ c.restored.token[1].Expiry < c.startedAt

\* C26: at startup a token restored from the token file whose expiry is set
\* and lies before the current time is never installed into the API client;
\* the process continues unauthenticated instead of failing.
C26_ExpiredTokenIgnored ==
    [][client.state = "starting" /\ client'.state # "starting" /\ RestoredExpired(client')
          => client'.token = Nil /\ client'.state = "running"]_vars

\* The process runs unauthenticated after it found an expired token.
C26_Witness ==
    client.state = "running" /\ RestoredExpired(client) /\ client.token = Nil

\* ------------------------------------------------- web: the authorize URL
\* A string is a sequence of tokens: a word, or one of the characters and
\* escapes that url.QueryEscape and url.QueryUnescape treat specially.
Keys == {"scope", "state"}
\* the keys in the order sort.Strings gives them
SortedKeys == <<"scope", "state">>
RawValues == {<<"read_station">>, <<"a", "%20", "b">>, <<"a", "%2B", "b">>}

\* url.QueryUnescape: "+" and "%20" are a space, "%2B" is a plus sign
QueryUnescape(raw) ==
    [i \in DOMAIN raw |-> CASE raw[i] \in {"+", "%20"} -> " "
                            [] raw[i] = "%2B" -> "+"
                            [] OTHER -> raw[i]]

\* url.QueryEscape: a space becomes "+", a plus sign "%2B"
QueryEscape(str) ==
    [i \in DOMAIN str |-> CASE str[i] = " " -> "+"
                            [] str[i] = "+" -> "%2B"
                            [] OTHER -> str[i]]

\* one key=value pair of a raw query
Param(key, value) == [key |-> key, value |-> value]
RawQueries ==
    UNION {[1..n -> {Param(k, v) : k \in Keys, v \in RawValues}] : n \in 0..MaxParams}

\* The URL that client.AuthCodeURL returns, as url.Parse splits it.
URL(rawQuery) == [base |-> "https://api.netatmo.com/oauth2/authorize", RawQuery |-> rawQuery]
AuthCodeURLs == {URL(q) : q \in RawQueries}

\* url.ParseQuery: for each key the unescaped values, in the order of the query
ParseQuery(query) ==
    [k \in Keys |->
        LET sel == SelectSeq(query, LAMBDA p : p.key = k)
        IN  [i \in DOMAIN sel |-> QueryUnescape(sel[i].value)]]

\* url.Values.Set and url.Values.Add
Values_Set(v, key, value) == [v EXCEPT ![key] = <<value>>]
Values_Add(v, key, value) == [v EXCEPT ![key] = Append(@, value)]

\* url.Values.Encode: the keys sorted, the values of a key in their order
RECURSIVE Values_EncodeFrom(_, _)
Values_EncodeFrom(v, i) ==
    IF i > Len(SortedKeys) THEN <<>>
    ELSE [j \in DOMAIN v[SortedKeys[i]] |->
              Param(SortedKeys[i], QueryEscape(v[SortedKeys[i]][j]))]
         \o Values_EncodeFrom(v, i + 1)
Values_Encode(v) == Values_EncodeFrom(v, 1)

\* strings.Join(elems, " ")
RECURSIVE strings_Join(_)
strings_Join(elems) ==
    IF elems = <<>> THEN <<>>
    ELSE IF Len(elems) = 1 THEN <<elems[1]>>
    ELSE <<elems[1], " ">> \o strings_Join(Tail(elems))

buildScopes(enableWeather, enableHomecoach) ==
    (IF enableWeather THEN <<"read_station">> ELSE <<>>)
        \o (IF enableHomecoach THEN <<"read_homecoach">> ELSE <<>>)

\* Variant of replaceScopes that adds the scope parameter to those present.
replaceScopes_Add(authURL, scopes) ==
    [authURL EXCEPT !.RawQuery =
        Values_Encode(Values_Add(ParseQuery(authURL.RawQuery), "scope", strings_Join(scopes)))]

replaceScopes(authURL, scopes) ==
    [authURL EXCEPT !.RawQuery =
        Values_Encode(Values_Set(ParseQuery(authURL.RawQuery), "scope", strings_Join(scopes)))]

BuildAuthURL(baseAuthURL, enableWeather, enableHomecoach) ==
    replaceScopes(baseAuthURL, buildScopes(enableWeather, enableHomecoach))

\* AuthorizeHandler: redirects (302 Found) to the authorize URL with the scopes
\* of the enabled collectors.
AuthorizeHandler ==
    /\ client.state = "running"
    /\ \E method \in Methods, baseAuthURL \in AuthCodeURLs :
          web' = Exchange("authorize", method,
                          <<Call("client.AuthCodeURL", baseAuthURL)>>, 302,
                          BuildAuthURL(baseAuthURL, cfg.enableWeather, cfg.enableHomecoach))
    /\ sent' = NoSend
    /\ UNCHANGED <<cfg, tokenFile, client, clock, cacheVars, cacheLock, tasks, scrapes, lastTrigger, lastFailed>>

\* C27: BuildAuthURL returns a URL whose scope parameter is exactly the
\* space-joined list that contains read_station iff weather is enabled and
\* read_homecoach iff homecoach is enabled; it replaces any scope already in
\* the URL, keeps the value of every other query parameter, and applying it
\* twice gives the same URL as applying it once.
C27_AuthURLScopes ==
    web.handler = "authorize" =>
        LET in == web.calls[1].result
            out == web.body
            before == ParseQuery(in.RawQuery)
            after == ParseQuery(out.RawQuery)
            w == cfg.enableWeather
            h == cfg.enableHomecoach
        IN  /\ after["scope"] =
                 << IF w /\ h THEN <<"read_station", " ", "read_homecoach">>
                    ELSE IF w THEN <<"read_station">>
                    ELSE IF h THEN <<"read_homecoach">>
                    ELSE <<>> >>
            /\ Len(SelectSeq(out.RawQuery, LAMBDA p : p.key = "scope")) = 1
            /\ \A k \in Keys \ {"scope"} : after[k] = before[k]
            /\ out.base = in.base
            /\ BuildAuthURL(out, w, h) = out

\* Both collectors enabled, and the URL came with a read_station scope, an
\* escaped value of another parameter, and the parameters out of order.
C27_Witness ==
    /\ web.handler = "authorize"
    /\ cfg.enableWeather /\ cfg.enableHomecoach
    /\ web.calls[1].result.RawQuery =
         <<Param("state", <<"a", "%20", "b">>), Param("scope", <<"read_station">>)>>
    /\ web.body.RawQuery =
         <<Param("scope", <<"read_station", "+", "read_homecoach">>),
           Param("state", <<"a", "+", "b">>)>>

\* The URL came with two scope parameters and leaves with one.
C27_WitnessDuplicate ==
    /\ web.handler = "authorize"
    /\ Len(SelectSeq(web.calls[1].result.RawQuery, LAMBDA p : p.key = "scope")) = 2
    /\ Len(SelectSeq(web.body.RawQuery, LAMBDA p : p.key = "scope")) = 1

\* ------------------------------------------------- web: deleting the token
\* os.Remove(tokenFile): the file is removed, or there is none (os.ErrNotExist),
\* or the call fails for another reason and the file stays as it is.
os_Remove(file) ==
    (IF file = "present" THEN {"removed"} ELSE {"notExist"}) \cup Errors

\* Variant of DeleteTokenHandler_Serve that clears the token in memory before
\* it removes the file.
DeleteTokenHandler_Serve_ClearsFirst(method, removed) ==
    IF method # "POST"
    THEN /\ web' = Exchange("deleteToken", method, <<>>, 405, "Method not allowed")
         /\ UNCHANGED <<tokenFile, client>>
    ELSE IF tokenFile # NoTokenFile /\ removed \in Errors
    THEN /\ web' = Exchange("deleteToken", method, <<Call("os.Remove", removed)>>,
                            500, "Failed to delete token file")
         /\ client' = [client EXCEPT !.token = Nil]
         /\ UNCHANGED tokenFile
    ELSE /\ web' = Exchange("deleteToken", method,
                            IF tokenFile = NoTokenFile THEN <<>>
                            ELSE <<Call("os.Remove", removed)>>,
                            302, "/")
         /\ tokenFile' = IF tokenFile = NoTokenFile THEN NoTokenFile ELSE "absent"
         /\ client' = [client EXCEPT !.token = Nil]

\* DeleteTokenHandler: a request with this method when os.Remove, if called,
\* returns removed.  Not a POST: 405.  The file could not be removed and the
\* error is not os.ErrNotExist: 500.  Else client.InitWithToken(ctx, nil) and a
\* redirect (302 Found) to "/".
DeleteTokenHandler_Serve(method, removed) ==
    IF method # "POST"
    THEN /\ web' = Exchange("deleteToken", method, <<>>, 405, "Method not allowed")
         /\ UNCHANGED <<tokenFile, client>>
    ELSE IF tokenFile # NoTokenFile /\ removed \in Errors
    THEN /\ web' = Exchange("deleteToken", method, <<Call("os.Remove", removed)>>,
                            500, "Failed to delete token file")
         /\ UNCHANGED <<tokenFile, client>>
    ELSE /\ web' = Exchange("deleteToken", method,
                            IF tokenFile = NoTokenFile THEN <<>>
                            ELSE <<Call("os.Remove", removed)>>,
                            302, "/")
         /\ tokenFile' = IF tokenFile = NoTokenFile THEN NoTokenFile ELSE "absent"
         /\ client' = [client EXCEPT !.token = Nil]

\* GET or POST to the handler that DeleteTokenHandler returns
DeleteTokenHandler ==
    /\ client.state = "running"
    /\ \E method \in Methods, removed \in os_Remove(tokenFile) :
          DeleteTokenHandler_Serve(method, removed)
    /\ sent' = NoSend
    /\ UNCHANGED <<cfg, clock, cacheVars, cacheLock, tasks, scrapes, lastTrigger, lastFailed>>

\* The step serves a request to DeleteTokenHandler (a request that repeats the
\* one before with the same outcome and changes nothing is a stuttering step).
DeleteTokenServed ==
    /\ web'.handler = "deleteToken"
    /\ \/ web.handler # "deleteToken"
       \/ web.handler = "deleteToken" /\ web' # web
       \/ tokenFile' # tokenFile
       \/ client' # client

\* os.Remove was called and failed for a reason other than the file being
\* absent.
RemoveFailed(exchange) ==
    exchange.calls # <<>> /\ exchange.calls[1].result \in Errors

\* C40: DeleteTokenHandler: a request that is not a POST changes neither the
\* token file nor the token in memory (405); on POST, if removing the file
\* fails for a reason other than the file being absent, the token in memory is
\* left in place and 500 is returned; otherwise the token in memory is cleared
\* and the response is a 302 redirect to /; a POST in the state that a
\* completed POST leaves gives that state again.
C40_DeleteToken ==
    [][DeleteTokenServed =>
          /\ web'.method # "POST" =>
                /\ web'.status = 405
                /\ tokenFile' = tokenFile /\ client' = client
          /\ web'.method = "POST" /\ RemoveFailed(web') =>
                /\ web'.status = 500
                /\ tokenFile' = tokenFile /\ client' = client
          /\ web'.method = "POST" /\ ~RemoveFailed(web') =>
                /\ web'.status = 302 /\ web'.body = "/"
                /\ tokenFile' # "present"
                /\ client'.token = Nil
          /\ web'.method = "POST" /\ tokenFile # "present" /\ client.token = Nil =>
                tokenFile' = tokenFile /\ client' = client]_vars

\* The file could not be removed: the answer is 500, the file is there and the
\* restored token is still installed.
C40_Witness ==
    /\ web.handler = "deleteToken" /\ web.method = "POST" /\ web.status = 500
    /\ tokenFile = "present"
    /\ client.token # Nil

\* A completed POST: the file is gone and no token is installed.
C40_WitnessCleared ==
    /\ web.handler = "deleteToken" /\ web.status = 302
    /\ web.calls # <<>> /\ web.calls[1].result = "removed"
    /\ tokenFile = "absent" /\ client.token = Nil
    /\ client.restored.token # Nil

\* ---------------------------------------------------- the web specification
\* The process as main builds it, seen through its web handlers: every
\* combination of --enable-weather and --enable-homecoach.
WebConfigs ==
    {[collector |-> "main", enableWeather |-> w, enableHomecoach |-> h] :
        w \in BOOLEAN, h \in BOOLEAN}

InitWeb ==
    /\ cfg \in WebConfigs
    /\ InitCollectors
    /\ tokenFile \in TokenFiles

NextWeb ==
    \/ Tick
    \/ main
    \/ DebugNetatmoHandler
    \/ AuthorizeHandler
    \/ DebugTokenHandler
    \/ DeleteTokenHandler

SpecWeb == InitWeb /\ [][NextWeb]_vars

====
